---- MODULE Spec2Model ----
(***************************************************************************)
(* CalorieCalculationService (src/ocr-service/calorie_calculation_service  *)
(* .py): the nutrient reference table and the operations that read it.     *)
(*                                                                         *)
(* Numbers.  Python floats are modelled as exact decimals in fixed point:  *)
(*   - a per-100g value of the table and a weight in grams are integers in *)
(*     TENTHS (52 kcal is 520, 182 g is 1820, 0.3 g is 3);                 *)
(*   - every number an operation returns is an integer in THOUSANDTHS     *)
(*     (94.6 kcal is 94600);                                               *)
(*   - base * weight / 100, before it is rounded, is the exact integer     *)
(*     base * weight in ten-thousandths.                                   *)
(* round(x, n) is Python 3's: to the nearest, ties to even.  Where the      *)
(* exact decimal lies half way between two neighbours the binary float     *)
(* lies a little to one side of it and Python returns that side; the model *)
(* takes the even neighbour, and the properties below are stated so that   *)
(* they do not depend on the side taken.                                   *)
(*                                                                         *)
(* A Python value passed as food_name or as a weight is a record           *)
(* [type, val]: type is the Python type's name, val the string (names)     *)
(* or the number in tenths (weights).  An operation ends in                *)
(* [kind |-> "return", value |-> dict] or [kind |-> "raise", value |->     *)
(* exception type].                                                        *)
(***************************************************************************)
EXTENDS Integers, Sequences, FiniteSets, TLC

VARIABLES
    nutritional_database,  \* self.nutritional_database
    op,                    \* the method called last
    args,                  \* its arguments
    outcome,               \* what it returned or raised
    rescales               \* consecutive scale_nutrients calls so far

vars == <<nutritional_database, op, args, outcome, rescales>>

---------------------------------------------------------------------------
\* Bounds of the model.

\* scale_nutrients is applied at most this many times in a row to its own result
MaxRescales == 2

---------------------------------------------------------------------------
\* Arithmetic.

Abs(x) == IF x < 0 THEN -x ELSE x

\* n / d (d > 0) rounded to the nearest integer, ties to the even one
RoundDiv(n, d) ==
    LET q == n \div d
        r == n % d
    IN  IF 2 * r < d THEN q
        ELSE IF 2 * r > d THEN q + 1
        ELSE IF q % 2 = 0 THEN q ELSE q + 1

\* thousandths in one step of the n-th decimal, and 10^n
Step(ndigits) == CASE ndigits = 1 -> 100 [] ndigits = 2 -> 10 [] ndigits = 3 -> 1
Pow10(ndigits) == CASE ndigits = 1 -> 10 [] ndigits = 2 -> 100 [] ndigits = 3 -> 1000

\* round(x, ndigits) of x = n / d thousandths, in thousandths
round(n, d, ndigits) == RoundDiv(n, d * Step(ndigits)) * Step(ndigits)

\* round(x, ndigits) of the plain ratio x = n / d, in thousandths
round_ratio(n, d, ndigits) == RoundDiv(n * Pow10(ndigits), d) * Step(ndigits)

\* a table value or a weight (tenths) in thousandths
Tenths(x) == x * 100

---------------------------------------------------------------------------
\* Python values.

Str(s) == [type |-> "str", val |-> s]
Num(t, v) == [type |-> t, val |-> v]

\* isinstance(x, (int, float)); bool is a subclass of int
is_number(x) == x.type \in {"int", "float", "bool"}

\* bool(x) of a food_name argument
truthy(x) ==
    CASE x.type = "str" -> x.val # ""
      [] x.type = "NoneType" -> FALSE
      [] x.type = "int" -> x.val # "0"
      [] x.type = "list" -> x.val # "[]"

\* a dict lookup hashes its key: a list raises TypeError
hashable(x) == x.type # "list"

\* food_name in self.nutritional_database, for a hashable food_name
in_database(db, food_name) == food_name.type = "str" /\ food_name.val \in DOMAIN db

Return(v) == [kind |-> "return", value |-> v]
Raise(e) == [kind |-> "raise", value |-> e]

---------------------------------------------------------------------------
\* The reference table: the rows of _load_nutritional_database this model
\* carries, every field of NutritionalInfo, numbers in tenths.

load_nutritional_database ==
    \* line 69
    "apple" :>
       [name |-> "apple", calories_per_100g |-> 520, protein_per_100g |-> 3,
        carbs_per_100g |-> 140, fat_per_100g |-> 2, fiber_per_100g |-> 24, density |-> 6,
        typical_portion_size |-> 1820, portion_description |-> "1 medium apple",
        sugar_per_100g |-> 104, saturated_fat_per_100g |-> 0,
        monounsaturated_fat_per_100g |-> 0, polyunsaturated_fat_per_100g |-> 1,
        trans_fat_per_100g |-> 0, cholesterol_per_100g |-> 0, sodium_per_100g |-> 10,
        potassium_per_100g |-> 1070, vitamin_c_per_100g |-> 46, vitamin_a_per_100g |-> 30,
        vitamin_e_per_100g |-> 2, vitamin_k_per_100g |-> 22, thiamine_per_100g |-> 0,
        riboflavin_per_100g |-> 0, niacin_per_100g |-> 1, folate_per_100g |-> 30,
        calcium_per_100g |-> 60, iron_per_100g |-> 1, magnesium_per_100g |-> 50,
        phosphorus_per_100g |-> 110, zinc_per_100g |-> 0, copper_per_100g |-> 0,
        manganese_per_100g |-> 0, selenium_per_100g |-> 0] @@
    \* line 77
    "banana" :>
       [name |-> "banana", calories_per_100g |-> 890, protein_per_100g |-> 11,
        carbs_per_100g |-> 230, fat_per_100g |-> 3, fiber_per_100g |-> 26, density |-> 7,
        typical_portion_size |-> 1200, portion_description |-> "1 medium banana",
        sugar_per_100g |-> 122, saturated_fat_per_100g |-> 1,
        monounsaturated_fat_per_100g |-> 0, polyunsaturated_fat_per_100g |-> 1,
        trans_fat_per_100g |-> 0, cholesterol_per_100g |-> 0, sodium_per_100g |-> 10,
        potassium_per_100g |-> 3580, vitamin_c_per_100g |-> 87, vitamin_a_per_100g |-> 640,
        vitamin_e_per_100g |-> 1, vitamin_k_per_100g |-> 5, thiamine_per_100g |-> 0,
        riboflavin_per_100g |-> 1, niacin_per_100g |-> 7, folate_per_100g |-> 200,
        calcium_per_100g |-> 50, iron_per_100g |-> 3, magnesium_per_100g |-> 270,
        phosphorus_per_100g |-> 220, zinc_per_100g |-> 2, copper_per_100g |-> 1,
        manganese_per_100g |-> 3, selenium_per_100g |-> 10] @@
    \* line 119
    "potato" :>
       [name |-> "potato", calories_per_100g |-> 770, protein_per_100g |-> 20,
        carbs_per_100g |-> 170, fat_per_100g |-> 1, fiber_per_100g |-> 22, density |-> 7,
        typical_portion_size |-> 1500, portion_description |-> "1 medium potato",
        sugar_per_100g |-> 0, saturated_fat_per_100g |-> 0, monounsaturated_fat_per_100g |-> 0,
        polyunsaturated_fat_per_100g |-> 0, trans_fat_per_100g |-> 0,
        cholesterol_per_100g |-> 0, sodium_per_100g |-> 0, potassium_per_100g |-> 0,
        vitamin_c_per_100g |-> 0, vitamin_a_per_100g |-> 0, vitamin_e_per_100g |-> 0,
        vitamin_k_per_100g |-> 0, thiamine_per_100g |-> 0, riboflavin_per_100g |-> 0,
        niacin_per_100g |-> 0, folate_per_100g |-> 0, calcium_per_100g |-> 0,
        iron_per_100g |-> 0, magnesium_per_100g |-> 0, phosphorus_per_100g |-> 0,
        zinc_per_100g |-> 0, copper_per_100g |-> 0, manganese_per_100g |-> 0,
        selenium_per_100g |-> 0] @@
    \* line 144
    "chicken" :>
       [name |-> "chicken", calories_per_100g |-> 1650, protein_per_100g |-> 310,
        carbs_per_100g |-> 0, fat_per_100g |-> 36, fiber_per_100g |-> 0, density |-> 10,
        typical_portion_size |-> 1000, portion_description |-> "3.5 oz chicken breast",
        sugar_per_100g |-> 0, saturated_fat_per_100g |-> 0, monounsaturated_fat_per_100g |-> 0,
        polyunsaturated_fat_per_100g |-> 0, trans_fat_per_100g |-> 0,
        cholesterol_per_100g |-> 0, sodium_per_100g |-> 0, potassium_per_100g |-> 0,
        vitamin_c_per_100g |-> 0, vitamin_a_per_100g |-> 0, vitamin_e_per_100g |-> 0,
        vitamin_k_per_100g |-> 0, thiamine_per_100g |-> 0, riboflavin_per_100g |-> 0,
        niacin_per_100g |-> 0, folate_per_100g |-> 0, calcium_per_100g |-> 0,
        iron_per_100g |-> 0, magnesium_per_100g |-> 0, phosphorus_per_100g |-> 0,
        zinc_per_100g |-> 0, copper_per_100g |-> 0, manganese_per_100g |-> 0,
        selenium_per_100g |-> 0] @@
    \* line 147
    "salmon" :>
       [name |-> "salmon", calories_per_100g |-> 2080, protein_per_100g |-> 250,
        carbs_per_100g |-> 0, fat_per_100g |-> 120, fiber_per_100g |-> 0, density |-> 10,
        typical_portion_size |-> 1000, portion_description |-> "3.5 oz salmon",
        sugar_per_100g |-> 0, saturated_fat_per_100g |-> 0, monounsaturated_fat_per_100g |-> 0,
        polyunsaturated_fat_per_100g |-> 0, trans_fat_per_100g |-> 0,
        cholesterol_per_100g |-> 0, sodium_per_100g |-> 0, potassium_per_100g |-> 0,
        vitamin_c_per_100g |-> 0, vitamin_a_per_100g |-> 0, vitamin_e_per_100g |-> 0,
        vitamin_k_per_100g |-> 0, thiamine_per_100g |-> 0, riboflavin_per_100g |-> 0,
        niacin_per_100g |-> 0, folate_per_100g |-> 0, calcium_per_100g |-> 0,
        iron_per_100g |-> 0, magnesium_per_100g |-> 0, phosphorus_per_100g |-> 0,
        zinc_per_100g |-> 0, copper_per_100g |-> 0, manganese_per_100g |-> 0,
        selenium_per_100g |-> 0] @@
    \* line 161
    "salt" :>
       [name |-> "salt", calories_per_100g |-> 0, protein_per_100g |-> 0, carbs_per_100g |-> 0,
        fat_per_100g |-> 0, fiber_per_100g |-> 0, density |-> 22, typical_portion_size |-> 60,
        portion_description |-> "1 tsp salt", sugar_per_100g |-> 0,
        saturated_fat_per_100g |-> 0, monounsaturated_fat_per_100g |-> 0,
        polyunsaturated_fat_per_100g |-> 0, trans_fat_per_100g |-> 0,
        cholesterol_per_100g |-> 0, sodium_per_100g |-> 0, potassium_per_100g |-> 0,
        vitamin_c_per_100g |-> 0, vitamin_a_per_100g |-> 0, vitamin_e_per_100g |-> 0,
        vitamin_k_per_100g |-> 0, thiamine_per_100g |-> 0, riboflavin_per_100g |-> 0,
        niacin_per_100g |-> 0, folate_per_100g |-> 0, calcium_per_100g |-> 0,
        iron_per_100g |-> 0, magnesium_per_100g |-> 0, phosphorus_per_100g |-> 0,
        zinc_per_100g |-> 0, copper_per_100g |-> 0, manganese_per_100g |-> 0,
        selenium_per_100g |-> 0] @@
    \* line 159
    "olive_oil" :>
       [name |-> "olive_oil", calories_per_100g |-> 8840, protein_per_100g |-> 0,
        carbs_per_100g |-> 0, fat_per_100g |-> 1000, fiber_per_100g |-> 0, density |-> 9,
        typical_portion_size |-> 140, portion_description |-> "1 tbsp olive oil",
        sugar_per_100g |-> 0, saturated_fat_per_100g |-> 0, monounsaturated_fat_per_100g |-> 0,
        polyunsaturated_fat_per_100g |-> 0, trans_fat_per_100g |-> 0,
        cholesterol_per_100g |-> 0, sodium_per_100g |-> 0, potassium_per_100g |-> 0,
        vitamin_c_per_100g |-> 0, vitamin_a_per_100g |-> 0, vitamin_e_per_100g |-> 0,
        vitamin_k_per_100g |-> 0, thiamine_per_100g |-> 0, riboflavin_per_100g |-> 0,
        niacin_per_100g |-> 0, folate_per_100g |-> 0, calcium_per_100g |-> 0,
        iron_per_100g |-> 0, magnesium_per_100g |-> 0, phosphorus_per_100g |-> 0,
        zinc_per_100g |-> 0, copper_per_100g |-> 0, manganese_per_100g |-> 0,
        selenium_per_100g |-> 0] @@
    \* line 160
    "sugar" :>
       [name |-> "sugar", calories_per_100g |-> 3870, protein_per_100g |-> 0,
        carbs_per_100g |-> 1000, fat_per_100g |-> 0, fiber_per_100g |-> 0, density |-> 16,
        typical_portion_size |-> 40, portion_description |-> "1 tsp sugar",
        sugar_per_100g |-> 0, saturated_fat_per_100g |-> 0, monounsaturated_fat_per_100g |-> 0,
        polyunsaturated_fat_per_100g |-> 0, trans_fat_per_100g |-> 0,
        cholesterol_per_100g |-> 0, sodium_per_100g |-> 0, potassium_per_100g |-> 0,
        vitamin_c_per_100g |-> 0, vitamin_a_per_100g |-> 0, vitamin_e_per_100g |-> 0,
        vitamin_k_per_100g |-> 0, thiamine_per_100g |-> 0, riboflavin_per_100g |-> 0,
        niacin_per_100g |-> 0, folate_per_100g |-> 0, calcium_per_100g |-> 0,
        iron_per_100g |-> 0, magnesium_per_100g |-> 0, phosphorus_per_100g |-> 0,
        zinc_per_100g |-> 0, copper_per_100g |-> 0, manganese_per_100g |-> 0,
        selenium_per_100g |-> 0]

\* the names and weights the operations are called with
FoodNameInputs ==
    {Str(k) : k \in DOMAIN load_nutritional_database}
    \cup {Str(""), Str("nonexistent_food_xyz"),
          [type |-> "NoneType", val |-> "None"],
          [type |-> "int", val |-> "5"],
          [type |-> "list", val |-> "['apple']"]}

WeightInputs ==
    {Num("int", g * 10) : g \in {-5, 0, 50, 100, 110, 125, 150, 182, 200, 500,
                                 10000, 10001}}
    \cup {Num("float", 5), Num("float", 1255), Num("bool", 10),
          [type |-> "str", val |-> 0], [type |-> "NoneType", val |-> 0]}

\* scale factors p / q
ScaleFactors == {<<1, 1>>, <<1, 2>>}

---------------------------------------------------------------------------
\* calculate_calories (the legacy calculation).

\* (base_per_100g * weight) / 100 in ten-thousandths: exact
per_weight(base_per_100g, weight) == base_per_100g * weight

\* the five zeroed nutrients and the message every error result carries
error_result(message) ==
    [calories |-> 0, protein |-> 0, carbs |-> 0, fat |-> 0, fiber |-> 0,
     error |-> message]

calculate_calories(db, food_name, portion_size_g) ==
    IF ~hashable(food_name) THEN Raise("TypeError")
    ELSE IF ~in_database(db, food_name) THEN Return(error_result("Unknown food"))
    ELSE IF ~is_number(portion_size_g) THEN Raise("TypeError")
    ELSE
        LET food_info == db[food_name.val]
            w == portion_size_g.val
        IN  Return(
            [calories |-> round(per_weight(food_info.calories_per_100g, w), 10, 1),
             protein |-> round(per_weight(food_info.protein_per_100g, w), 10, 1),
             carbs |-> round(per_weight(food_info.carbs_per_100g, w), 10, 1),
             fat |-> round(per_weight(food_info.fat_per_100g, w), 10, 1),
             fiber |-> round(per_weight(food_info.fiber_per_100g, w), 10, 1),
             portion_size_g |-> round(Tenths(w), 1, 1),
             portion_description |-> food_info.portion_description,
             food_name |-> food_name.val,
             density |-> Tenths(food_info.density)])

---------------------------------------------------------------------------
\* _assess_nutritional_quality.  The class body defines the name twice
\* (lines 430 and 587); the later definition is the one the class keeps, so
\* self._assess_nutritional_quality is the five-parameter meal assessment.

\* positional parameters, after self, of the definition in effect
assess_nutritional_quality_arity == 5

\* calories, protein, carbs, fat and fiber are given as multiples of 1 / unit
assess_nutritional_quality(calories, protein, carbs, fat, fiber, unit) ==
    LET protein_calories == protein * 4
        fat_calories == fat * 9
        \* x_percentage = pn / pd, 0 when calories is 0
        ppn == IF calories > 0 THEN protein_calories * 100 ELSE 0
        fpn == IF calories > 0 THEN fat_calories * 100 ELSE 0
        pd == IF calories > 0 THEN calories ELSE 1
        protein_band ==
            IF 15 * pd <= ppn /\ ppn <= 25 * pd THEN 2
            ELSE IF (10 * pd <= ppn /\ ppn < 15 * pd) \/ (25 * pd < ppn /\ ppn <= 30 * pd)
                 THEN 1 ELSE 0
        fat_band ==
            IF 20 * pd <= fpn /\ fpn <= 35 * pd THEN 2
            ELSE IF (15 * pd <= fpn /\ fpn < 20 * pd) \/ (35 * pd < fpn /\ fpn <= 40 * pd)
                 THEN 1 ELSE 0
        fiber_band == IF fiber >= 5 * unit THEN 2 ELSE IF fiber >= 3 * unit THEN 1 ELSE 0
        quality_score == protein_band + fat_band + fiber_band
        recommendations ==
            (IF protein_band = 1 THEN <<"Consider adjusting protein intake">> ELSE <<>>)
            \o (IF fat_band = 1 THEN <<"Consider adjusting fat intake">> ELSE <<>>)
            \o (IF fiber_band = 2 THEN <<>>
                ELSE IF fiber_band = 1 THEN <<"Add more fiber-rich foods">>
                ELSE <<"Consider adding more vegetables and whole grains">>)
    IN  [quality_score |-> quality_score,
         quality_rating |->
            IF quality_score >= 6 THEN "excellent"
            ELSE IF quality_score >= 4 THEN "good"
            ELSE IF quality_score >= 2 THEN "fair"
            ELSE "needs_improvement",
         protein_percentage |-> round_ratio(ppn, pd, 1),
         fat_percentage |-> round_ratio(fpn, pd, 1),
         fiber_content |-> round_ratio(fiber, unit, 1),
         recommendations |-> recommendations]

\* self._assess_nutritional_quality(...) with nargs positional arguments
call_assess_nutritional_quality(nargs, calories, protein, carbs, fat, fiber, unit) ==
    IF nargs # assess_nutritional_quality_arity THEN Raise("TypeError")
    ELSE Return(assess_nutritional_quality(calories, protein, carbs, fat, fiber, unit))

---------------------------------------------------------------------------
\* calculate_precise_nutrition.

\* line 230: not food_name or not isinstance(food_name, str)
invalid_food_name(food_name) == ~truthy(food_name) \/ food_name.type # "str"

\* invalid_weight with the comparison w < 0: a zero weight passes
invalid_weight_zero_passes(confirmed_weight_g) ==
    ~is_number(confirmed_weight_g) \/ confirmed_weight_g.val < 0

\* line 240: not isinstance(w, (int, float)) or w <= 0
invalid_weight(confirmed_weight_g) ==
    ~is_number(confirmed_weight_g) \/ confirmed_weight_g.val <= 0

\* line 250 with a limit of 100 kg
weight_too_large_above_100kg(confirmed_weight_g) == confirmed_weight_g.val > 1000000

\* line 250: w > 10000
weight_too_large(confirmed_weight_g) == confirmed_weight_g.val > 100000

\* protein * 4 + carbs * 4 + fat * 9 per 100 g (tenths)
total_calculated_per_100g(food_info) ==
    food_info.protein_per_100g * 4 + food_info.carbs_per_100g * 4
    + food_info.fat_per_100g * 9

\* the local calorie_accuracy (line 304) as the pair <<n, d>> of n / d percent:
\* |calories - total_calculated_calories| / calories * 100, 0 when calories is 0
calorie_accuracy(food_info, w) ==
    IF per_weight(food_info.calories_per_100g, w) > 0
    THEN <<Abs(food_info.calories_per_100g - total_calculated_per_100g(food_info)) * 100,
           food_info.calories_per_100g>>
    ELSE <<0, 1>>

\* the local validation_errors (lines 307-319)
validation_errors(food_info, w) ==
    LET acc == calorie_accuracy(food_info, w)
        calories == per_weight(food_info.calories_per_100g, w)
        total == per_weight(total_calculated_per_100g(food_info), w)
    IN  (IF acc[1] > 5 * acc[2] THEN <<"Calorie calculation deviation">> ELSE <<>>)
        \o (IF \/ per_weight(food_info.protein_per_100g, w) < 0
               \/ per_weight(food_info.carbs_per_100g, w) < 0
               \/ per_weight(food_info.fat_per_100g, w) < 0
               \/ per_weight(food_info.fiber_per_100g, w) < 0
            THEN <<"Negative nutrient values detected">> ELSE <<>>)
        \o (IF calories > 1000 * 10000 THEN <<"Unusually high calorie count">> ELSE <<>>)
        \o (IF Abs(calories - total) > 10000
            THEN <<"Calorie calculation precision issue">> ELSE <<>>)

calculate_vitamins(food_info, w) ==
    [vitamin_c |-> round(per_weight(food_info.vitamin_c_per_100g, w), 10, 2),
     vitamin_a |-> round(per_weight(food_info.vitamin_a_per_100g, w), 10, 2),
     vitamin_e |-> round(per_weight(food_info.vitamin_e_per_100g, w), 10, 2),
     vitamin_k |-> round(per_weight(food_info.vitamin_k_per_100g, w), 10, 2),
     thiamine |-> round(per_weight(food_info.thiamine_per_100g, w), 10, 3),
     riboflavin |-> round(per_weight(food_info.riboflavin_per_100g, w), 10, 3),
     niacin |-> round(per_weight(food_info.niacin_per_100g, w), 10, 3),
     folate |-> round(per_weight(food_info.folate_per_100g, w), 10, 2)]

calculate_minerals(food_info, w) ==
    [calcium |-> round(per_weight(food_info.calcium_per_100g, w), 10, 2),
     iron |-> round(per_weight(food_info.iron_per_100g, w), 10, 2),
     magnesium |-> round(per_weight(food_info.magnesium_per_100g, w), 10, 2),
     phosphorus |-> round(per_weight(food_info.phosphorus_per_100g, w), 10, 2),
     zinc |-> round(per_weight(food_info.zinc_per_100g, w), 10, 2),
     copper |-> round(per_weight(food_info.copper_per_100g, w), 10, 2),
     manganese |-> round(per_weight(food_info.manganese_per_100g, w), 10, 2),
     selenium |-> round(per_weight(food_info.selenium_per_100g, w), 10, 2)]

\* the values datetime.now().isoformat() can take at a call (line 357)
Timestamps == {"2025-01-01T00:00:00", "2025-01-01T00:00:01"}

\* the dict of lines 325-358 with its nutritional_quality entry given; now
\* is the wall clock read at line 357
nutrition_dict(food_info, food_name, w, nutritional_quality, now) ==
    LET acc == calorie_accuracy(food_info, w)
        errors == validation_errors(food_info, w)
    IN  [calories |-> round(per_weight(food_info.calories_per_100g, w), 10, 1),
         protein |-> round(per_weight(food_info.protein_per_100g, w), 10, 2),
         carbs |-> round(per_weight(food_info.carbs_per_100g, w), 10, 2),
         fat |-> round(per_weight(food_info.fat_per_100g, w), 10, 2),
         fiber |-> round(per_weight(food_info.fiber_per_100g, w), 10, 2),
         portion_size_g |-> round(Tenths(w), 1, 1),
         portion_description |-> food_info.portion_description,
         food_name |-> food_name.val,
         density |-> Tenths(food_info.density),
         calorie_accuracy |-> round_ratio(acc[1], acc[2], 2),
         calories_from_protein |->
            round(per_weight(food_info.protein_per_100g, w) * 4, 10, 1),
         calories_from_carbs |->
            round(per_weight(food_info.carbs_per_100g, w) * 4, 10, 1),
         calories_from_fat |->
            round(per_weight(food_info.fat_per_100g, w) * 9, 10, 1),
         total_calculated_calories |->
            round(per_weight(total_calculated_per_100g(food_info), w), 10, 1),
         sugar |-> round(per_weight(food_info.sugar_per_100g, w), 10, 2),
         saturated_fat |-> round(per_weight(food_info.saturated_fat_per_100g, w), 10, 2),
         monounsaturated_fat |->
            round(per_weight(food_info.monounsaturated_fat_per_100g, w), 10, 2),
         polyunsaturated_fat |->
            round(per_weight(food_info.polyunsaturated_fat_per_100g, w), 10, 2),
         trans_fat |-> round(per_weight(food_info.trans_fat_per_100g, w), 10, 2),
         cholesterol |-> round(per_weight(food_info.cholesterol_per_100g, w), 10, 2),
         sodium |-> round(per_weight(food_info.sodium_per_100g, w), 10, 2),
         potassium |-> round(per_weight(food_info.potassium_per_100g, w), 10, 2),
         vitamins |-> calculate_vitamins(food_info, w),
         minerals |-> calculate_minerals(food_info, w),
         nutritional_quality |-> nutritional_quality,
         validation_errors |-> errors,
         calculation_quality |-> IF errors = <<>> THEN "excellent" ELSE "needs_review",
         timestamp |-> now]

calculate_precise_nutrition(db, food_name, confirmed_weight_g, now) ==
    IF invalid_food_name(food_name)
    THEN Return(error_result("Invalid food name provided"))
    ELSE IF invalid_weight(confirmed_weight_g)
    THEN Return(error_result("Invalid weight. Must be a positive number."))
    ELSE IF weight_too_large(confirmed_weight_g)
    THEN Return(error_result("Weight too large. Maximum 10kg allowed."))
    ELSE IF ~in_database(db, food_name)
    THEN Return(error_result("Unknown food. Available foods: ..."))
    ELSE
        LET food_info == db[food_name.val]
            w == confirmed_weight_g.val
            \* line 353: seven positional arguments; the two extra are the
            \* vitamins and minerals, which the call never gets to use
            quality == call_assess_nutritional_quality(7,
                           per_weight(food_info.calories_per_100g, w),
                           per_weight(food_info.protein_per_100g, w),
                           per_weight(food_info.carbs_per_100g, w),
                           per_weight(food_info.fat_per_100g, w),
                           per_weight(food_info.fiber_per_100g, w),
                           10000)
        IN  IF quality.kind = "raise" THEN quality
            ELSE Return(nutrition_dict(food_info, food_name, w, quality.value, now))

---------------------------------------------------------------------------
\* scale_nutrients.

\* the keys whose values are Python numbers (isinstance(value, (int, float)))
\* in the dicts the nutrition calculations return
NumericKeys ==
    {"calories", "protein", "carbs", "fat", "fiber", "portion_size_g", "density",
     "calorie_accuracy", "calories_from_protein", "calories_from_carbs",
     "calories_from_fat", "total_calculated_calories", "sugar", "saturated_fat",
     "monounsaturated_fat", "polyunsaturated_fat", "trans_fat", "cholesterol",
     "sodium", "potassium"}

\* scale_nutrients with portion_size_g left out of the keys it skips
scale_nutrients_scales_portion(base_nutrition, scale_factor) ==
    [key \in DOMAIN base_nutrition |->
        IF key \in NumericKeys /\ key \notin {"density"}
        THEN round(base_nutrition[key] * scale_factor[1], scale_factor[2], 2)
        ELSE base_nutrition[key]]

\* scale_factor is p / q
scale_nutrients(base_nutrition, scale_factor) ==
    [key \in DOMAIN base_nutrition |->
        IF key \in NumericKeys /\ key \notin {"portion_size_g", "density"}
        THEN round(base_nutrition[key] * scale_factor[1], scale_factor[2], 2)
        ELSE base_nutrition[key]]

---------------------------------------------------------------------------
\* validate_portion_size.

\* recommendation with the 25% band closed below: deviation >= 25
recommendation_band_closed(n, d) ==
    IF n > 50 * d THEN "Unusually large portion - consider splitting"
    ELSE IF n >= 25 * d THEN "Larger than typical - ensure accuracy"
    ELSE IF n < 10 * d THEN "Perfect portion size"
    ELSE "Good portion size"

\* the recommendation for a deviation of n / d percent (lines 392-400)
recommendation(n, d) ==
    IF n > 50 * d THEN "Unusually large portion - consider splitting"
    ELSE IF n > 25 * d THEN "Larger than typical - ensure accuracy"
    ELSE IF n < 10 * d THEN "Perfect portion size"
    ELSE "Good portion size"

validate_portion_size(db, food_name, weight_g) ==
    IF ~hashable(food_name) THEN Raise("TypeError")
    ELSE IF ~in_database(db, food_name)
    THEN Return([valid |-> FALSE, error |-> "Unknown food"])
    ELSE IF ~is_number(weight_g) THEN Raise("TypeError")
    ELSE
        LET typical_portion == db[food_name.val].typical_portion_size
            \* deviation = n / typical_portion percent
            n == Abs(weight_g.val - typical_portion) * 100
        IN  Return(
            [valid |-> TRUE,
             typical_portion_g |-> Tenths(typical_portion),
             deviation_percent |-> round_ratio(n, typical_portion, 1),
             recommendation |-> recommendation(n, typical_portion)])

---------------------------------------------------------------------------
\* estimate_portion_size.  confidence and the drawn variation are integers in
\* HUNDREDTHS (0.5 is 50); the estimate is exact in millionths of a gram.

\* line 180: the values np.random.normal(1.0, 0.1) is taken to draw
Variations == {50, 100, 150}

\* line 181: max(0.7, min(1.3, variation))
clamp_variation(variation) ==
    IF variation > 130 THEN 130 ELSE IF variation < 70 THEN 70 ELSE variation

\* lines 177-183: typical_portion * confidence_factor * variation, in
\* millionths of a gram (tenths * thousandths * hundredths)
estimated_portion(typical_portion, confidence, variation) ==
    typical_portion * (800 + 4 * confidence) * clamp_variation(variation)

\* the estimate is a whole number of tenths of a gram
representable(db, food_name, confidence, variation) ==
    in_database(db, food_name)
    => estimated_portion(db[food_name.val].typical_portion_size,
                         confidence, variation) % 100000 = 0

estimate_portion_size(db, food_name, confidence, variation) ==
    IF ~hashable(food_name) THEN Raise("TypeError")
    ELSE IF ~in_database(db, food_name) THEN Return(Num("int", 1000))
    ELSE
        LET typical_portion == db[food_name.val].typical_portion_size
            estimated == estimated_portion(typical_portion, confidence, variation)
        IN  IF estimated < 10 * 1000000 THEN Return(Num("int", 100))
            ELSE Return(Num("float", estimated \div 100000))

---------------------------------------------------------------------------
\* analyze_meal_calories.

\* str.lower() on the ingredient names of the model
lower(s) == CASE s = "Apple" -> "apple" [] OTHER -> s

\* lines 574-585, calories in thousandths
classify_meal_type(calories) ==
    IF calories < 200000 THEN "light_snack"
    ELSE IF calories < 400000 THEN "snack"
    ELSE IF calories < 600000 THEN "light_meal"
    ELSE IF calories < 800000 THEN "regular_meal"
    ELSE "large_meal"

\* lines 640-659, arguments in thousandths
generate_dietary_recommendations(calories, protein, carbs, fat) ==
    (IF calories > 1000000
     THEN <<"This is a high-calorie meal. Consider portion control.">> ELSE <<>>)
    \o (IF protein < 20000
        THEN <<"Add more protein sources like lean meat, fish, or legumes.">>
        ELSE <<>>)
    \o (IF fat > 50000 THEN <<"Consider reducing high-fat ingredients.">> ELSE <<>>)
    \o (IF carbs > 100000
        THEN <<"This meal is high in carbohydrates. Consider adding more vegetables.">>
        ELSE <<>>)
    \o (IF calories < 300000
        THEN <<"This is a light meal. You might need additional snacks.">>
        ELSE <<>>)

no_totals ==
    [calories |-> 0, protein |-> 0, carbs |-> 0, fat |-> 0, fiber |-> 0,
     weight |-> 0, detailed_breakdown |-> <<>>]

\* the loop of lines 528-556 over ingredients, variations[i] being the draw
\* of the i-th estimate_portion_size call; sums are in thousandths
RECURSIVE meal_totals(_, _, _)
meal_totals(db, ingredients, variations) ==
    IF ingredients = <<>> THEN no_totals
    ELSE
        LET n == Len(ingredients)
            before == meal_totals(db, SubSeq(ingredients, 1, n - 1),
                                  SubSeq(variations, 1, n - 1))
            ingredient == ingredients[n]
            food_name == Str(lower(IF "name" \in DOMAIN ingredient
                                   THEN ingredient.name ELSE ""))
            confidence == IF "confidence" \in DOMAIN ingredient
                          THEN ingredient.confidence ELSE 50
            portion_size == estimate_portion_size(db, food_name, confidence,
                                                  variations[n]).value
            nutrition == calculate_calories(db, food_name, portion_size).value
        IN  IF "error" \in DOMAIN nutrition THEN before
            ELSE [calories |-> before.calories + nutrition.calories,
                  protein |-> before.protein + nutrition.protein,
                  carbs |-> before.carbs + nutrition.carbs,
                  fat |-> before.fat + nutrition.fat,
                  fiber |-> before.fiber + nutrition.fiber,
                  weight |-> before.weight + nutrition.portion_size_g,
                  detailed_breakdown |->
                    Append(before.detailed_breakdown,
                           [name |-> food_name.val,
                            portion_size_g |-> nutrition.portion_size_g,
                            calories |-> nutrition.calories,
                            protein |-> nutrition.protein,
                            carbs |-> nutrition.carbs,
                            fat |-> nutrition.fat,
                            fiber |-> nutrition.fiber,
                            confidence |-> confidence])]

analyze_meal_calories(db, ingredients, variations) ==
    LET t == meal_totals(db, ingredients, variations)
        quality == call_assess_nutritional_quality(5, t.calories, t.protein,
                       t.carbs, t.fat, t.fiber, 1000)
    IN  IF quality.kind = "raise" THEN quality
        ELSE Return(
            [total_calories |-> round(t.calories, 1, 1),
             total_protein |-> round(t.protein, 1, 1),
             total_carbs |-> round(t.carbs, 1, 1),
             total_fat |-> round(t.fat, 1, 1),
             total_fiber |-> round(t.fiber, 1, 1),
             total_weight_g |-> round(t.weight, 1, 1),
             calories_per_100g |->
                IF t.weight > 0 THEN round_ratio(t.calories * 100, t.weight, 1)
                ELSE 0,
             detailed_breakdown |-> t.detailed_breakdown,
             meal_type |-> classify_meal_type(t.calories),
             nutritional_quality |-> quality.value,
             dietary_recommendations |->
                generate_dietary_recommendations(t.calories, t.protein,
                                                 t.carbs, t.fat)])

\* inputs of the two operations
ConfidenceInputs == {0, 50, 100}
IngredientInputs ==
    {[name |-> "Apple"], [name |-> "nonexistent_food_xyz", confidence |-> 50]}
MaxIngredients == 2
IngredientLists ==
    UNION {[1..n -> IngredientInputs] : n \in 0..MaxIngredients}

---------------------------------------------------------------------------
\* The service: one action per public method called.

Init ==
    /\ nutritional_database = load_nutritional_database
    /\ op = "__init__"
    /\ args = <<>>
    /\ outcome = Return("None")
    /\ rescales = 0

CalculateCalories ==
    \E food_name \in FoodNameInputs, portion_size_g \in WeightInputs :
        /\ op' = "calculate_calories"
        /\ args' = [food_name |-> food_name, portion_size_g |-> portion_size_g]
        /\ outcome' = calculate_calories(nutritional_database, food_name, portion_size_g)
        /\ rescales' = 0
        /\ UNCHANGED nutritional_database

CalculatePreciseNutrition ==
    \E food_name \in FoodNameInputs, confirmed_weight_g \in WeightInputs,
       now \in Timestamps :
        /\ op' = "calculate_precise_nutrition"
        /\ args' = [food_name |-> food_name, confirmed_weight_g |-> confirmed_weight_g]
        /\ outcome' = calculate_precise_nutrition(nutritional_database, food_name,
                                                  confirmed_weight_g, now)
        /\ rescales' = 0
        /\ UNCHANGED nutritional_database

\* base_nutrition is a dict a nutrition calculation or an earlier rescale returned
ScaleNutrients ==
    /\ op \in {"calculate_calories", "calculate_precise_nutrition", "scale_nutrients"}
    /\ outcome.kind = "return"
    /\ rescales < MaxRescales
    /\ \E scale_factor \in ScaleFactors :
        /\ op' = "scale_nutrients"
        /\ args' = [base_nutrition |-> outcome.value, scale_factor |-> scale_factor]
        /\ outcome' = Return(scale_nutrients(outcome.value, scale_factor))
        /\ rescales' = rescales + 1
        /\ UNCHANGED nutritional_database

ValidatePortionSize ==
    \E food_name \in FoodNameInputs, weight_g \in WeightInputs :
        /\ op' = "validate_portion_size"
        /\ args' = [food_name |-> food_name, weight_g |-> weight_g]
        /\ outcome' = validate_portion_size(nutritional_database, food_name, weight_g)
        /\ rescales' = 0
        /\ UNCHANGED nutritional_database

\* estimate_portion_size with the estimate stored as the food's typical portion
EstimatePortionSize_stores_estimate ==
    \E food_name \in FoodNameInputs, confidence \in ConfidenceInputs,
       variation \in Variations :
        /\ representable(nutritional_database, food_name, confidence, variation)
        /\ op' = "estimate_portion_size"
        /\ args' = [food_name |-> food_name, confidence |-> confidence]
        /\ outcome' = estimate_portion_size(nutritional_database, food_name,
                                            confidence, variation)
        /\ rescales' = 0
        /\ nutritional_database' =
             IF in_database(nutritional_database, food_name)
             THEN [nutritional_database EXCEPT
                     ![food_name.val].typical_portion_size = outcome'.value.val]
             ELSE nutritional_database

\* variation is the draw of np.random.normal at line 180
EstimatePortionSize ==
    \E food_name \in FoodNameInputs, confidence \in ConfidenceInputs,
       variation \in Variations :
        /\ representable(nutritional_database, food_name, confidence, variation)
        /\ op' = "estimate_portion_size"
        /\ args' = [food_name |-> food_name, confidence |-> confidence]
        /\ outcome' = estimate_portion_size(nutritional_database, food_name,
                                            confidence, variation)
        /\ rescales' = 0
        /\ UNCHANGED nutritional_database

\* variations[i] is the draw of the i-th estimate_portion_size call
AnalyzeMealCalories ==
    \E ingredients \in IngredientLists :
        \E variations \in [1..Len(ingredients) -> Variations] :
            /\ op' = "analyze_meal_calories"
            /\ args' = [ingredients |-> ingredients]
            /\ outcome' = analyze_meal_calories(nutritional_database, ingredients,
                                                variations)
            /\ rescales' = 0
            /\ UNCHANGED nutritional_database

Next ==
    \/ CalculateCalories
    \/ CalculatePreciseNutrition
    \/ ScaleNutrients
    \/ ValidatePortionSize
    \/ EstimatePortionSize
    \/ AnalyzeMealCalories

Spec == Init /\ [][Next]_vars

---------------------------------------------------------------------------
\* Vocabulary of the properties.

\* the error kind a message stands for
ErrorKind(message) ==
    CASE message = "Invalid food name provided" -> "InvalidInput"
      [] message = "Invalid weight. Must be a positive number." -> "InvalidInput"
      [] message = "Weight too large. Maximum 10kg allowed." -> "InvalidInput"
      [] message = "Unknown food. Available foods: ..." -> "UnknownFood"
      [] OTHER -> "Other"

\* o is a returned error result of the given kind: a non-empty message and
\* no nutrient value other than zero
IsErrorResult(o, kind) ==
    /\ o.kind = "return"
    /\ "error" \in DOMAIN o.value
    /\ o.value.error # ""
    /\ ErrorKind(o.value.error) = kind
    /\ \A k \in DOMAIN o.value \ {"error"} : o.value[k] = 0

\* o is a returned nutrient result: no error field
IsSuccess(o) == o.kind = "return" /\ "error" \notin DOMAIN o.value

\* a weight the input contract allows: a number in (0, 10000] grams
ValidWeight(w) == w.type \in {"int", "float"} /\ w.val > 0 /\ w.val <= 100000

KnownFood(food_name) == in_database(nutritional_database, food_name)

\* the clock value of a call made for comparison
SomeTime == CHOOSE now \in Timestamps : TRUE

\* the last call was calculate_precise_nutrition(f, w), f a key of the table
\* and w a valid weight
ValidPreciseCall ==
    /\ op = "calculate_precise_nutrition"
    /\ KnownFood(args.food_name)
    /\ ValidWeight(args.confirmed_weight_g)

---------------------------------------------------------------------------
\* C1: for every food f of the table, calculate_precise_nutrition(f, 10001)
\* returns an InvalidInput error result and calculate_precise_nutrition(f,
\* 10000) returns a nutrient result that carries no error field.
C1_WeightCapBoundary ==
    (op = "calculate_precise_nutrition" /\ KnownFood(args.food_name)
     /\ args.confirmed_weight_g.type = "int")
    => /\ args.confirmed_weight_g.val = 100010 => IsErrorResult(outcome, "InvalidInput")
       /\ args.confirmed_weight_g.val = 100000 => IsSuccess(outcome)

\* C2: calculate_precise_nutrition(f, w), f a food of the table, returns an
\* InvalidInput error result when w is zero, negative or not a number, and
\* calculate_precise_nutrition(name, 100) returns an UnknownFood error result
\* when name is a non-empty string that is no key of the table; the result
\* carries a message and no nutrient value other than zero.
C2_InvalidWeightAndUnknownFood ==
    op = "calculate_precise_nutrition"
    => /\ (KnownFood(args.food_name)
           /\ (args.confirmed_weight_g.type \notin {"int", "float", "bool"}
               \/ args.confirmed_weight_g.val <= 0))
          => IsErrorResult(outcome, "InvalidInput")
       /\ (args.food_name.type = "str" /\ args.food_name.val # ""
           /\ args.food_name.val \notin DOMAIN nutritional_database
           /\ args.confirmed_weight_g = Num("int", 1000))
          => IsErrorResult(outcome, "UnknownFood")

\* C2 witness: a known food with a zero weight was refused
C2_Witness ==
    /\ op = "calculate_precise_nutrition"
    /\ KnownFood(args.food_name)
    /\ args.confirmed_weight_g = Num("int", 0)
    /\ IsErrorResult(outcome, "InvalidInput")

\* C3: calculate_precise_nutrition and validate_portion_size return a result
\* or an error result for every pair of inputs; neither raises.
C3_NoExceptionPropagates ==
    op \in {"calculate_precise_nutrition", "validate_portion_size"}
    => outcome.kind = "return"

\* C4: linear scaling: for a food f of the table and valid weights w1, w2 the
\* calories returned for w2 are w2 / w1 times the calories returned for w1,
\* within 0.1 calorie.
C4_LinearScaling ==
    ValidPreciseCall
    => /\ IsSuccess(outcome)
       /\ \A w1 \in {w \in WeightInputs : ValidWeight(w)} :
            LET r1 == calculate_precise_nutrition(nutritional_database,
                                                  args.food_name, w1, SomeTime)
            IN  /\ IsSuccess(r1)
                /\ Abs(outcome.value.calories * w1.val
                       - r1.value.calories * args.confirmed_weight_g.val)
                   <= 100 * w1.val

\* C5: a valid call yields a result whose calorie_accuracy is
\* 100 - |calories - (4 protein + 4 carbs + 9 fat)| / calories * 100 (to the
\* two decimals kept), and 100 when calories is 0.
C5_CalorieAccuracy ==
    ValidPreciseCall
    => /\ IsSuccess(outcome)
       /\ LET food_info == nutritional_database[args.food_name.val]
              c == food_info.calories_per_100g
              t == total_calculated_per_100g(food_info)
          IN  IF c = 0 THEN outcome.value.calorie_accuracy = 100000
              ELSE Abs((100000 - outcome.value.calorie_accuracy) * c
                       - Abs(c - t) * 100000) <= 5 * c

\* C6: for a valid call either 4 protein + 4 carbs + 9 fat is within 5% of
\* calories, or the result has calorie_accuracy < 95 and a calorie-deviation
\* warning among its validation_errors; the result is returned either way.
C6_DeviationWarning ==
    ValidPreciseCall
    => /\ IsSuccess(outcome)
       /\ LET food_info == nutritional_database[args.food_name.val]
              c == food_info.calories_per_100g
              t == total_calculated_per_100g(food_info)
          IN  \/ Abs(c - t) * 100 <= 5 * c
              \/ /\ outcome.value.calorie_accuracy < 95000
                 /\ \E i \in DOMAIN outcome.value.validation_errors :
                        outcome.value.validation_errors[i]
                            = "Calorie calculation deviation"

\* the weight (tenths of a gram) a nutrient result was computed for
PortionOf(nutrition) == nutrition.portion_size_g \div 100

\* the weight (tenths of a gram) that base_nutrition's weight times the
\* scale factor is
TargetWeight == (PortionOf(args.base_nutrition) * args.scale_factor[1])
                    \div args.scale_factor[2]

\* the last call rescaled a nutrient result computed for (f, w), straight
\* from a calculation, from the valid weight w to the valid weight TargetWeight
RescaledToValidWeight ==
    /\ op = "scale_nutrients"
    /\ rescales = 1
    /\ "food_name" \in DOMAIN args.base_nutrition
    /\ PortionOf(args.base_nutrition) > 0
    /\ PortionOf(args.base_nutrition) <= 100000
    /\ (PortionOf(args.base_nutrition) * args.scale_factor[1])
            % args.scale_factor[2] = 0
    /\ TargetWeight > 0
    /\ TargetWeight <= 100000

\* the result the calculation that made base_nutrition returns for weight w2
Recomputed(base_nutrition, w2) ==
    IF "calorie_accuracy" \in DOMAIN base_nutrition
    THEN calculate_precise_nutrition(nutritional_database,
                                     Str(base_nutrition.food_name), Num("float", w2),
                                     SomeTime)
    ELSE calculate_calories(nutritional_database,
                            Str(base_nutrition.food_name), Num("float", w2))

C8_RoundTripIdempotence ==
    (ValidPreciseCall /\ args.confirmed_weight_g.val = 1000)
    => /\ IsSuccess(outcome)
       /\ scale_nutrients(outcome.value, <<1, 1>>) = outcome.value

\* C9: for a known food and a weight w, validate_portion_size returns the
\* typical portion of the table, the deviation of w from it in percent (to
\* the one decimal kept) and the recommendation of the deviation's band:
\* above 50 "unusually large", else above 25 "larger than typical", else
\* below 10 "perfect", else (10 to 25, both included) "good".
C9_PortionBands ==
    (op = "validate_portion_size" /\ KnownFood(args.food_name)
     /\ is_number(args.weight_g))
    => LET typical == nutritional_database[args.food_name.val].typical_portion_size
           diff == Abs(args.weight_g.val - typical)
           v == outcome.value
       IN  /\ outcome.kind = "return"
           /\ v.valid = TRUE
           /\ v.typical_portion_g = typical * 100
           /\ v.deviation_percent % 100 = 0
           /\ 2 * Abs((v.deviation_percent \div 100) * typical - diff * 1000)
              <= typical
           /\ diff * 100 > 50 * typical
              => v.recommendation = "Unusually large portion - consider splitting"
           /\ (diff * 100 > 25 * typical /\ diff * 100 <= 50 * typical)
              => v.recommendation = "Larger than typical - ensure accuracy"
           /\ diff * 100 < 10 * typical
              => v.recommendation = "Perfect portion size"
           /\ (diff * 100 >= 10 * typical /\ diff * 100 <= 25 * typical)
              => v.recommendation = "Good portion size"

\* C9 witness: a weight exactly 25% off the typical portion was rated good
C9_Witness ==
    /\ op = "validate_portion_size"
    /\ KnownFood(args.food_name)
    /\ is_number(args.weight_g)
    /\ Abs(args.weight_g.val
           - nutritional_database[args.food_name.val].typical_portion_size) * 4
       = nutritional_database[args.food_name.val].typical_portion_size
    /\ outcome.kind = "return"
    /\ outcome.value.deviation_percent = 25000
    /\ outcome.value.recommendation = "Good portion size"

\* the scores a band can give, and the rating of a score
BandScores == {0, 15, 20, 25}
RatingOf(score) ==
    IF score >= 90 THEN "Excellent"
    ELSE IF score >= 75 THEN "Very Good"
    ELSE IF score >= 60 THEN "Good"
    ELSE IF score >= 45 THEN "Fair"
    ELSE "Poor"

\* C10: the quality assessment in the result of a valid call has a score that
\* is the sum of four band scores, each 0, 15, 20 or 25, and the rating of
\* that score: Excellent from 90, Very Good from 75, Good from 60, Fair from
\* 45, Poor below.
C10_QualityScoreAndRating ==
    ValidPreciseCall
    => /\ IsSuccess(outcome)
       /\ \E a, b, c, d \in BandScores :
            outcome.value.nutritional_quality.quality_score = a + b + c + d
       /\ outcome.value.nutritional_quality.quality_rating
            = RatingOf(outcome.value.nutritional_quality.quality_score)

---------------------------------------------------------------------------
\* The seven-parameter _assess_nutritional_quality of lines 430-512.  The
\* class body binds the name a second time at line 587, so this definition
\* is not the method of the class; it is modelled as the function its text
\* defines, applied directly in AssessSpec.

\* calories, protein, carbs, fat, fiber, vitamins.vitamin_c and minerals.iron
\* are given as multiples of 1 / unit; returned numbers are in thousandths
assess_nutritional_quality_replaced(calories, protein, carbs, fat, fiber, vitamins, minerals, unit) ==
    LET total_calories == calories
        pos == total_calories > 0
        \* x_percentage = xn / pd, 0 when total_calories is 0
        pd == IF pos THEN total_calories ELSE 1
        ppn == IF pos THEN protein * 4 * 100 ELSE 0
        cpn == IF pos THEN carbs * 4 * 100 ELSE 0
        fpn == IF pos THEN fat * 9 * 100 ELSE 0
        fbn == IF pos THEN fiber * 100 ELSE 0
        protein_score ==
            IF ppn >= 15 * pd /\ ppn <= 35 * pd THEN 25
            ELSE IF ppn >= 10 * pd /\ ppn <= 40 * pd THEN 20
            ELSE IF ppn >= 5 * pd THEN 15 ELSE 0
        carb_score ==
            IF cpn >= 45 * pd /\ cpn <= 65 * pd THEN 25
            ELSE IF cpn >= 35 * pd /\ cpn <= 75 * pd THEN 20
            ELSE IF cpn >= 25 * pd THEN 15 ELSE 0
        fat_score ==
            IF fpn >= 20 * pd /\ fpn <= 35 * pd THEN 25
            ELSE IF fpn >= 15 * pd /\ fpn <= 40 * pd THEN 20
            ELSE IF fpn >= 10 * pd THEN 15 ELSE 0
        fiber_score ==
            IF fbn >= 3 * pd THEN 25
            ELSE IF fbn >= 2 * pd THEN 20
            ELSE IF fbn >= 1 * pd THEN 15 ELSE 0
        quality_score == protein_score + carb_score + fat_score + fiber_score
        quality_rating ==
            IF quality_score >= 90 THEN "Excellent"
            ELSE IF quality_score >= 75 THEN "Very Good"
            ELSE IF quality_score >= 60 THEN "Good"
            ELSE IF quality_score >= 45 THEN "Fair"
            ELSE "Poor"
        recommendations ==
            (IF ppn < 15 * pd
             THEN <<"Consider adding more protein sources">> ELSE <<>>)
            \o (IF cpn > 70 * pd
                THEN <<"Reduce refined carbohydrates">> ELSE <<>>)
            \o (IF fpn > 40 * pd
                THEN <<"Consider reducing fat intake">> ELSE <<>>)
            \o (IF fbn < 2 * pd THEN <<"Increase fiber intake">> ELSE <<>>)
            \o (IF vitamins.vitamin_c < 10 * unit
                THEN <<"Add vitamin C rich foods">> ELSE <<>>)
            \o (IF minerals.iron < 2 * unit
                THEN <<"Consider iron-rich foods">> ELSE <<>>)
    IN  [quality_score |-> quality_score * 1000,
         quality_rating |-> quality_rating,
         protein_percentage |-> round_ratio(ppn, pd, 1),
         carb_percentage |-> round_ratio(cpn, pd, 1),
         fat_percentage |-> round_ratio(fpn, pd, 1),
         fiber_per_100_calories |-> round_ratio(fbn, pd, 1),
         recommendations |-> recommendations]

\* Inputs of the assessment, in grams and milligrams (unit 1).  With 3600
\* calories one percent of calories is 9 g of protein or carbohydrate and
\* 4 g of fat, and one gram of fibre per 100 calories is 36 g.
ProfileCalories == {0, 3600}
ProteinGrams == {27, 45, 90, 135, 180, 315, 360, 405}
CarbGrams == {180, 225, 315, 405, 450, 540, 585, 630, 675, 720}
FatGrams == {20, 40, 60, 80, 100, 120, 140, 160, 180}
FiberGrams == {18, 36, 72, 108}
VitaminCMilligrams == {5, 10}
IronMilligrams == {1, 2}

\* a profile has been drawn and not yet assessed
AssessInit ==
    /\ nutritional_database = load_nutritional_database
    /\ op = "__init__"
    /\ args \in [calories : ProfileCalories, protein : ProteinGrams,
                 carbs : CarbGrams, fat : FatGrams, fiber : FiberGrams,
                 vitamins : [vitamin_c : VitaminCMilligrams],
                 minerals : [iron : IronMilligrams]]
    /\ outcome = Return("None")
    /\ rescales = 0

\* the assessment applied to the profile
AssessNutritionalQuality ==
    /\ op = "__init__"
    /\ op' = "_assess_nutritional_quality"
    /\ outcome' = Return(assess_nutritional_quality_replaced(
                      args.calories, args.protein, args.carbs, args.fat,
                      args.fiber, args.vitamins, args.minerals, 1))
    /\ UNCHANGED <<nutritional_database, args, rescales>>

AssessSpec == AssessInit /\ [][AssessNutritionalQuality]_vars

\* the profile (protein %, carbohydrate %, fat % of calories, fibre per 100
\* calories in halves) that was assessed
Assessed(protein_pct, carb_pct, fat_pct, fiber_halves) ==
    /\ op = "_assess_nutritional_quality"
    /\ args.calories = 3600
    /\ args.protein = 9 * protein_pct
    /\ args.carbs = 9 * carb_pct
    /\ args.fat = 4 * fat_pct
    /\ args.fiber = 18 * fiber_halves

\* C11: the banding rates (protein 20%, carbs 50%, fat 30%, fibre 3)
\* Excellent, (15, 60, 25, 2) Very Good, (10, 70, 20, 1) Good and
\* (5, 80, 15, 0.5) Fair.
C11_ProfileRatings ==
    /\ Assessed(20, 50, 30, 6) => outcome.value.quality_rating = "Excellent"
    /\ Assessed(15, 60, 25, 4) => outcome.value.quality_rating = "Very Good"
    /\ Assessed(10, 70, 20, 2) => outcome.value.quality_rating = "Good"
    /\ Assessed(5, 80, 15, 1) => outcome.value.quality_rating = "Fair"

\* the recommendation s is in the assessment's list
Recommends(s) ==
    \E i \in 1..Len(outcome.value.recommendations) :
        outcome.value.recommendations[i] = s

\* x / args.calories, as a percentage, lies outside the band lo..hi
OutsideBand(x, lo, hi) ==
    x * 100 < lo * args.calories \/ x * 100 > hi * args.calories

BoolToNat(b) == IF b THEN 1 ELSE 0

\* C12: the assessment appends a recommendation for each of protein,
\* carbohydrate and fat whose percentage of calories is outside its ideal
\* band (15-35, 45-65, 20-35), on either side, a vitamin C recommendation
\* iff vitamin C < 10 mg and an iron recommendation iff iron < 2 mg, and
\* nothing else.
C12_RecommendationPerOutOfBandMacro ==
    (op = "_assess_nutritional_quality" /\ args.calories > 0)
    => LET protein_out == OutsideBand(args.protein * 4, 15, 35)
           carb_out == OutsideBand(args.carbs * 4, 45, 65)
           fat_out == OutsideBand(args.fat * 9, 20, 35)
           low_c == args.vitamins.vitamin_c < 10
           low_iron == args.minerals.iron < 2
       IN  /\ Recommends("Consider adding more protein sources") <=> protein_out
           /\ Recommends("Reduce refined carbohydrates") <=> carb_out
           /\ Recommends("Consider reducing fat intake") <=> fat_out
           /\ Recommends("Add vitamin C rich foods") <=> low_c
           /\ Recommends("Consider iron-rich foods") <=> low_iron
           /\ Len(outcome.value.recommendations)
              = BoolToNat(protein_out) + BoolToNat(carb_out) + BoolToNat(fat_out)
                + BoolToNat(low_c) + BoolToNat(low_iron)

---------------------------------------------------------------------------
\* C13: a call of calculate_precise_nutrition returns a result, and a call
\* with the same food name and weight made at any other point (any value of
\* the clock, the table as loaded) returns a result equal to it in every
\* field.
C13_Determinism ==
    op = "calculate_precise_nutrition"
    => /\ outcome.kind = "return"
       /\ \A now \in Timestamps :
            LET other == calculate_precise_nutrition(load_nutritional_database,
                             args.food_name, args.confirmed_weight_g, now)
            IN  other.kind = "return" /\ other.value = outcome.value

---------------------------------------------------------------------------
\* the outcome of the last call is what the call gives on the table as it was
\* loaded, from its arguments and its own draws (clock, variation) alone
ResultFromArgumentsAlone ==
    /\ op = "calculate_calories"
       => outcome = calculate_calories(load_nutritional_database,
                                       args.food_name, args.portion_size_g)
    /\ op = "calculate_precise_nutrition"
       => \E now \in Timestamps :
            outcome = calculate_precise_nutrition(load_nutritional_database,
                          args.food_name, args.confirmed_weight_g, now)
    /\ op = "scale_nutrients"
       => outcome = Return(scale_nutrients(args.base_nutrition, args.scale_factor))
    /\ op = "validate_portion_size"
       => outcome = validate_portion_size(load_nutritional_database,
                                          args.food_name, args.weight_g)
    /\ op = "estimate_portion_size"
       => \E variation \in Variations :
            outcome = estimate_portion_size(load_nutritional_database,
                          args.food_name, args.confidence, variation)
    /\ op = "analyze_meal_calories"
       => \E variations \in [1..Len(args.ingredients) -> Variations] :
            outcome = analyze_meal_calories(load_nutritional_database,
                                            args.ingredients, variations)

---------------------------------------------------------------------------
(***************************************************************************)
(* EnhancedOCRService.advanced_parse_receipt_text (src/ocr-service/         *)
(* enhanced_ocr_service.py lines 241-401).                                  *)
(*                                                                         *)
(* A string is a sequence of one-character strings and a text is the        *)
(* sequence of its lines, text.split('\n'): never empty, <<"">> for the    *)
(* empty string.  The characters are ASCII: \s is the space and the tab,    *)
(* \d the ten digits.  A regular expression is modelled by the match        *)
(* Python's backtracking search returns: the leftmost start, and at that    *)
(* start the first alternative in the order greedy and lazy quantifiers     *)
(* try them.  Amounts are integers in HUNDREDTHS (3.49 is 349), an item's   *)
(* total = quantity * price is exact in TEN-THOUSANDTHS, confidence is in   *)
(* TENTHS.  An optional field is [type, val] with type "NoneType" for None. *)
(***************************************************************************)

Digits == <<"0", "1", "2", "3", "4", "5", "6", "7", "8", "9">>
Upper == <<"A", "B", "C", "D", "E", "F", "G", "H", "I", "J", "K", "L", "M",
           "N", "O", "P", "Q", "R", "S", "T", "U", "V", "W", "X", "Y", "Z">>
Lower == <<"a", "b", "c", "d", "e", "f", "g", "h", "i", "j", "k", "l", "m",
           "n", "o", "p", "q", "r", "s", "t", "u", "v", "w", "x", "y", "z">>

Range(f) == {f[i] : i \in DOMAIN f}
DigitChars == Range(Digits)
SpaceChars == {" ", "\t"}
LetterChars == Range(Upper) \cup Range(Lower)

\* the character of s at position i, "\n" past the end
At(s, i) == IF i \in 1..Len(s) THEN s[i] ELSE "\n"

\* the end (exclusive) of the longest run of characters of class from i
run_end(s, i, class) ==
    CHOOSE j \in i..(Len(s) + 1) :
        /\ \A k \in i..(j - 1) : s[k] \in class
        /\ At(s, j) \notin class

\* str.lower() and str.strip()
lower_char(c) ==
    IF c \in Range(Upper) THEN Lower[CHOOSE i \in 1..26 : Upper[i] = c] ELSE c
lower_str(s) == [i \in 1..Len(s) |-> lower_char(s[i])]
strip(s) ==
    LET first == run_end(s, 1, SpaceChars)
        last == IF first > Len(s) THEN Len(s)
                ELSE CHOOSE j \in first..Len(s) :
                        /\ s[j] \notin SpaceChars
                        /\ \A k \in (j + 1)..Len(s) : s[k] \in SpaceChars
    IN  SubSeq(s, first, last)

\* word occurs in s at position i; word in s
occurs_at(s, i, word) ==
    /\ i + Len(word) - 1 <= Len(s)
    /\ \A k \in 1..Len(word) : s[i + k - 1] = word[k]
contains(s, word) == \E i \in 1..(Len(s) + 1) : occurs_at(s, i, word)

\* int() of the digits s[i..e-1]
digit_value(c) == (CHOOSE i \in 1..10 : Digits[i] = c) - 1
RECURSIVE int_of(_, _, _)
int_of(s, i, e) ==
    IF e <= i THEN 0 ELSE int_of(s, i, e - 1) * 10 + digit_value(s[e - 1])

\* \d+ followed by \.\d{2} at i: the end of the match, 0 without one
amount_end(s, i) ==
    LET e == run_end(s, i, DigitChars)
    IN  IF e > i /\ At(s, e) = "." /\ At(s, e + 1) \in DigitChars
           /\ At(s, e + 2) \in DigitChars
        THEN e + 3 ELSE 0

\* float() of the amount \d+\.\d{2} at i, in hundredths
amount_at(s, i) ==
    LET e == run_end(s, i, DigitChars)
    IN  int_of(s, i, e) * 100 + int_of(s, e + 1, e + 3)

\* the text of the amount \d+\.\d{2} at i
amount_text(s, i) == SubSeq(s, i, amount_end(s, i) - 1)

\* float(t) returns for digits only
is_float_literal_digits_only(t) ==
    /\ \E n \in 1..Len(t) : t[n] \in DigitChars
    /\ \A n \in 1..Len(t) : t[n] \in DigitChars

\* float(t) returns: t is digits with at most one dot, among or around them
\* (signs, exponents and white space do not occur in what the patterns
\* capture); it raises ValueError for any other text
is_float_literal(t) ==
    /\ \E n \in 1..Len(t) : t[n] \in DigitChars
    /\ \A n \in 1..Len(t) : t[n] \in DigitChars \cup {"."}
    /\ \A n1, n2 \in 1..Len(t) : (t[n1] = "." /\ t[n2] = ".") => n1 = n2

\* some float(t) of the texts raises
any_raises(texts) == \E n \in 1..Len(texts) : ~is_float_literal(texts[n])

\* float() of the quantity s[i..e-1] = \d+(\.\d{1,2})?, in hundredths
quantity_at(s, i, e) ==
    LET d == run_end(s, i, DigitChars)
    IN  IF d >= e THEN int_of(s, i, e) * 100
        ELSE int_of(s, i, d) * 100
             + (IF e - d = 2 THEN 10 ELSE 1) * int_of(s, d + 1, e)

\* the result of a search that found nothing
NoMatch == [matched |-> FALSE]

\* the least element of a nonempty set of integers
Least(ks) == CHOOSE k \in ks : \A j \in ks : k <= j

\* the end of \s*@?\s*\$? from i; the pattern that follows starts with a
\* digit, so the greedy choice is the only one that can succeed
separator_at_end(s, i) ==
    LET p1 == run_end(s, i, SpaceChars)
        p2 == IF At(s, p1) = "@" THEN p1 + 1 ELSE p1
        p3 == run_end(s, p2, SpaceChars)
    IN  IF At(s, p3) = "$" THEN p3 + 1 ELSE p3

\* the end of \s*x\s*\$? (re.IGNORECASE) from i, 0 without an x
separator_x_end(s, i) ==
    LET p1 == run_end(s, i, SpaceChars)
        p3 == run_end(s, p1 + 1, SpaceChars)
    IN  IF At(s, p1) \notin {"x", "X"} THEN 0
        ELSE IF At(s, p3) = "$" THEN p3 + 1 ELSE p3

\* the ends \d+(?:\.\d{1,2})? can have from q0, in the order the greedy
\* quantifiers try them: all the digits with two decimals, with one, with
\* none, then one digit fewer at a time
quantity_ends(s, q0) ==
    LET d == run_end(s, q0, DigitChars)
        dot == d > q0 /\ At(s, d) = "." /\ At(s, d + 1) \in DigitChars
    IN  (IF dot /\ At(s, d + 2) \in DigitChars THEN <<d + 3>> ELSE <<>>)
        \o (IF dot THEN <<d + 2>> ELSE <<>>)
        \o [n \in 1..(d - q0) |-> d - n + 1]

\* the end of what stands between the quantity and the price in the
\* three-group pattern of line 277 (pattern 1) or line 279 (pattern 3)
separator_end(pattern, s, i) ==
    IF pattern = 1 THEN separator_at_end(s, i) ELSE separator_x_end(s, i)

\* the three-group patterns with the name s[1..k]
quantity_price_at(s, k, pattern) ==
    IF At(s, k + 1) \notin SpaceChars THEN NoMatch
    ELSE
        LET q0 == run_end(s, k + 1, SpaceChars)
            ends == quantity_ends(s, q0)
            good == {n \in 1..Len(ends) :
                        /\ separator_end(pattern, s, ends[n]) # 0
                        /\ amount_end(s, separator_end(pattern, s, ends[n])) # 0}
        IN  IF good = {} THEN NoMatch
            ELSE [matched |-> TRUE, groups |-> 3, name |-> SubSeq(s, 1, k),
                  quantity |-> quantity_at(s, q0, ends[Least(good)]),
                  price |-> amount_at(s, separator_end(pattern, s,
                                                       ends[Least(good)])),
                  texts |-> <<SubSeq(s, q0, ends[Least(good)] - 1),
                              amount_text(s, separator_end(pattern, s,
                                                           ends[Least(good)]))>>]

\* line 277: ^(.*?)\s+(\d+(?:\.\d{1,2})?)\s*@?\s*\$?(\d+(?:\.\d{2}))
item_qty_price_at(s, k) == quantity_price_at(s, k, 1)

\* line 278: ^(.*?)\s+\$?(\d+\.\d{2})
item_price_at(s, k) ==
    IF At(s, k + 1) \notin SpaceChars THEN NoMatch
    ELSE
        LET p1 == run_end(s, k + 1, SpaceChars)
            p2 == IF At(s, p1) = "$" THEN p1 + 1 ELSE p1
        IN  IF amount_end(s, p2) = 0 THEN NoMatch
            ELSE [matched |-> TRUE, groups |-> 2, name |-> SubSeq(s, 1, k),
                  price |-> amount_at(s, p2), texts |-> <<amount_text(s, p2)>>]

\* line 279: ^(.*?)\s+(\d+(?:\.\d{1,2})?)\s*x\s*\$?(\d+(?:\.\d{2}))
item_qty_x_price_at(s, k) == quantity_price_at(s, k, 3)

\* re.search of a pattern that starts with ^(.*?), at[k] being its match
\* with the name s[1..k]: the match with the shortest name
shortest_name(s, at) ==
    LET ks == {k \in 0..Len(s) : at[k].matched}
    IN  IF ks = {} THEN NoMatch ELSE at[Least(ks)]

\* line 289: re.search of each of the three patterns of lines 277-279
search_item_qty_price(s) ==
    shortest_name(s, [k \in 0..Len(s) |-> item_qty_price_at(s, k)])
search_item_price(s) ==
    shortest_name(s, [k \in 0..Len(s) |-> item_price_at(s, k)])
search_item_qty_x_price(s) ==
    shortest_name(s, [k \in 0..Len(s) |-> item_qty_x_price_at(s, k)])

\* lines 288-317: the first of the matches m1, m2, m3 of the three patterns
\* that matched, then break
first_match(m1, m2, m3) ==
    IF m1.matched THEN m1 ELSE IF m2.matched THEN m2 ELSE m3

\* lines 285-317: the match of the first pattern that matches the line
match_item(line) ==
    first_match(search_item_qty_price(line), search_item_price(line),
                search_item_qty_x_price(line))

\* lines 294, 307 without the test for 'total'
keeps_item_even_total(item_name, price) == price < 100000

\* lines 294, 307: 'total' not in item_name.lower() and price < 1000
keeps_item(item_name, price) ==
    ~contains(lower_str(item_name), <<"t", "o", "t", "a", "l">>) /\ price < 100000

\* lines 285, 290-317: the items, none or one, of a line whose match is m
items_of_match(line, m) ==
    IF Len(line) < 3 \/ ~m.matched THEN <<>>
    ELSE IF ~keeps_item(strip(m.name), m.price) THEN <<>>
    ELSE IF m.groups = 3
    THEN <<[name |-> strip(m.name), price |-> m.price, quantity |-> m.quantity,
            total |-> m.quantity * m.price]>>
    ELSE <<[name |-> strip(m.name), price |-> m.price, quantity |-> 100,
            total |-> 100 * m.price]>>

\* lines 283-317: the items of one line
items_of_line(line) == items_of_match(line, match_item(line))

RECURSIVE extract_items(_)
extract_items(lines) ==
    IF lines = <<>> THEN <<>>
    ELSE extract_items(SubSeq(lines, 1, Len(lines) - 1))
         \o items_of_line(lines[Len(lines)])

\* optional values: None, a float in hundredths, a string
None == [type |-> "NoneType", val |-> 0]
NoneStr == [type |-> "NoneType", val |-> <<>>]
Float(v) == [type |-> "float", val |-> v]

\* words joined by \s+ matched at i: the end of the match, 0 without one
RECURSIVE keyword_end(_, _, _)
keyword_end(s, i, words) ==
    IF ~occurs_at(s, i, Head(words)) THEN 0
    ELSE
        LET e == i + Len(Head(words))
        IN  IF Len(words) = 1 THEN e
            ELSE IF At(s, e) \notin SpaceChars THEN 0
            ELSE keyword_end(s, run_end(s, e, SpaceChars), Tail(words))

\* keyword[\s:]*\$?(\d+(?:\.\d{2})) matched at i: where the amount starts,
\* 0 without a match
keyword_amount_start(s, i, words) ==
    LET e == keyword_end(s, i, words)
        p1 == run_end(s, e, SpaceChars \cup {":"})
        p2 == IF At(s, p1) = "$" THEN p1 + 1 ELSE p1
    IN  IF e = 0 THEN 0 ELSE IF amount_end(s, p2) = 0 THEN 0 ELSE p2

\* lines 320-327
total_patterns ==
    <<<<<<"t", "o", "t", "a", "l">>>>,
      <<<<"a", "m", "o", "u", "n", "t">>,
        <<"d", "u", "e">>>>,
      <<<<"b", "a", "l", "a", "n", "c", "e">>>>,
      <<<<"g", "r", "a", "n", "d">>,
        <<"t", "o", "t", "a", "l">>>>,
      <<<<"s", "u", "b", "t", "o", "t", "a", "l">>>>,
      <<<<"t", "a", "x">>>>>>

\* lines 332-340: one pattern searched in one lowered line
apply_total_pattern(t, line_lower, words) ==
    LET starts == {i \in 1..Len(line_lower) :
                      keyword_amount_start(line_lower, i, words) # 0}
        amount == amount_at(line_lower,
                      keyword_amount_start(line_lower, Least(starts), words))
    IN  IF starts = {} THEN t
        ELSE IF contains(line_lower, <<"t", "a", "x">>) THEN [t EXCEPT !.tax = Float(amount)]
        ELSE IF contains(line_lower, <<"s", "u", "b", "t", "o", "t", "a", "l">>)
        THEN [t EXCEPT !.subtotal = Float(amount)]
        ELSE IF t.total_amount = None \/ amount > t.total_amount.val
        THEN [t EXCEPT !.total_amount = Float(amount)]
        ELSE t

\* line 334: the texts given to float() by one pattern on one lowered line,
\* none or one
total_texts(line_lower, words) ==
    LET starts == {i \in 1..Len(line_lower) :
                      keyword_amount_start(line_lower, i, words) # 0}
    IN  IF starts = {} THEN <<>>
        ELSE <<amount_text(line_lower,
                   keyword_amount_start(line_lower, Least(starts), words))>>

\* lines 331-340: the first n patterns on one line, in order
RECURSIVE apply_total_patterns(_, _, _)
apply_total_patterns(t, line_lower, n) ==
    IF n = 0 THEN t
    ELSE apply_total_pattern(apply_total_patterns(t, line_lower, n - 1),
                             line_lower, total_patterns[n])

\* lines 329-340
RECURSIVE detect_totals(_)
detect_totals(lines) ==
    IF lines = <<>>
    THEN [total_amount |-> None, subtotal |-> None, tax |-> None]
    ELSE apply_total_patterns(detect_totals(SubSeq(lines, 1, Len(lines) - 1)),
                              lower_str(lines[Len(lines)]), Len(total_patterns))

---------------------------------------------------------------------------
\* Date detection, lines 342-355.

DateSeparators == {"/", "-"}

\* \d{1,2}[/-] at i: the position after the separator, 0 without a match
day_or_month_end(s, i) ==
    IF At(s, i) \notin DigitChars THEN 0
    ELSE IF At(s, i + 1) \in DigitChars /\ At(s, i + 2) \in DateSeparators
    THEN i + 3
    ELSE IF At(s, i + 1) \in DateSeparators THEN i + 2
    ELSE 0

\* the end of at most n digits from i
digits_end(s, i, n) ==
    LET e == run_end(s, i, DigitChars) IN IF e - i > n THEN i + n ELSE e

\* line 344: \d{1,2}[/-]\d{1,2}[/-]\d{2,4}
numeric_date_end(s, i) ==
    LET m == day_or_month_end(s, i)
        y == day_or_month_end(s, m)
    IN  IF m = 0 THEN 0 ELSE IF y = 0 THEN 0
        ELSE IF digits_end(s, y, 4) - y < 2 THEN 0 ELSE digits_end(s, y, 4)

\* line 345: \d{4}[/-]\d{1,2}[/-]\d{1,2}
iso_date_end(s, i) ==
    LET d == day_or_month_end(s, i + 5)
    IN  IF i + 4 > Len(s) THEN 0
        ELSE IF \E k \in i..(i + 3) : s[k] \notin DigitChars THEN 0
        ELSE IF s[i + 4] \notin DateSeparators THEN 0
        ELSE IF d = 0 THEN 0
        ELSE IF digits_end(s, d, 2) = d THEN 0 ELSE digits_end(s, d, 2)

Months ==
    {<<"j", "a", "n">>,
     <<"f", "e", "b">>,
     <<"m", "a", "r">>,
     <<"a", "p", "r">>,
     <<"m", "a", "y">>,
     <<"j", "u", "n">>,
     <<"j", "u", "l">>,
     <<"a", "u", "g">>,
     <<"s", "e", "p">>,
     <<"o", "c", "t">>,
     <<"n", "o", "v">>,
     <<"d", "e", "c">>}

\* \d{n},?\s+\d{4} at i: the end of the match, 0 without one
day_year_end(s, i, n) ==
    LET c == i + n
        c2 == IF At(s, c) = "," THEN c + 1 ELSE c
        y == run_end(s, c2, SpaceChars)
    IN  IF \E k \in i..(c - 1) : At(s, k) \notin DigitChars THEN 0
        ELSE IF At(s, c2) \notin SpaceChars THEN 0
        ELSE IF \E k \in y..(y + 3) : At(s, k) \notin DigitChars THEN 0
        ELSE y + 4

\* line 346: (Jan|...|Dec)[a-z]*\s+\d{1,2},?\s+\d{4}, re.IGNORECASE
month_date_end(s, i) ==
    LET l == run_end(s, i + 3, LetterChars)
        d == run_end(s, l, SpaceChars)
    IN  IF i + 2 > Len(s) THEN 0
        ELSE IF lower_str(SubSeq(s, i, i + 2)) \notin Months THEN 0
        ELSE IF d = l THEN 0
        ELSE IF day_year_end(s, d, 2) # 0 THEN day_year_end(s, d, 2)
        ELSE day_year_end(s, d, 1)

\* the match s[i..ends[i]-1] of least i, NoMatch when ends is 0 everywhere:
\* re.search(pattern, line).group(0) for a pattern that ends at ends[i]
\* when matched at i
leftmost_match(s, ends) ==
    LET starts == {i \in 1..Len(s) : ends[i] # 0}
    IN  IF starts = {} THEN NoMatch
        ELSE [matched |-> TRUE,
              text |-> SubSeq(s, Least(starts), ends[Least(starts)] - 1)]

\* lines 343-347: re.search of the n-th date pattern
search_date(s, n) ==
    leftmost_match(s, [i \in 1..Len(s) |->
                          CASE n = 1 -> numeric_date_end(s, i)
                            [] n = 2 -> iso_date_end(s, i)
                            [] n = 3 -> month_date_end(s, i)])

\* lines 350-354: the first pattern that matches the line
date_of_line(line) ==
    IF search_date(line, 1).matched THEN search_date(line, 1)
    ELSE IF search_date(line, 2).matched THEN search_date(line, 2)
    ELSE search_date(line, 3)

\* lines 349-354: the date of a later line replaces the date of an earlier
RECURSIVE detect_date(_)
detect_date(lines) ==
    IF lines = <<>> THEN NoneStr
    ELSE IF date_of_line(lines[Len(lines)]).matched
    THEN Str(date_of_line(lines[Len(lines)]).text)
    ELSE detect_date(SubSeq(lines, 1, Len(lines) - 1))

---------------------------------------------------------------------------
\* Store name and payment method, lines 357-383.

\* line 364
store_indicators ==
    {<<"m", "a", "r", "t">>,
     <<"s", "t", "o", "r", "e">>,
     <<"s", "h", "o", "p">>,
     <<"g", "r", "o", "c", "e", "r", "y">>,
     <<"m", "a", "r", "k", "e", "t">>,
     <<"s", "u", "p", "e", "r">>,
     <<"p", "h", "a", "r", "m", "a", "c", "y">>}

\* lines 360-367: the first of lines[:3] that has a store indicator
RECURSIVE store_like_line(_, _)
store_like_line(lines, i) ==
    IF i > Len(lines) \/ i > 3 THEN NoneStr
    ELSE
        LET line == strip(lines[i])
        IN  IF Len(line) > 3 /\ Len(line) < 50
               /\ \E indicator \in store_indicators :
                    contains(lower_str(line), indicator)
            THEN Str(line)
            ELSE store_like_line(lines, i + 1)

\* lines 358-371
detect_store_name(lines) ==
    IF lines = <<>> THEN NoneStr
    ELSE IF store_like_line(lines, 1) # NoneStr THEN store_like_line(lines, 1)
    ELSE IF lines[1] # <<>> THEN Str(lines[1])
    ELSE NoneStr

\* line 375
payment_words ==
    {<<"c", "a", "s", "h">>,
     <<"c", "r", "e", "d", "i", "t">>,
     <<"d", "e", "b", "i", "t">>,
     <<"v", "i", "s", "a">>,
     <<"m", "a", "s", "t", "e", "r", "c", "a", "r", "d">>,
     <<"a", "m", "e", "x">>,
     <<"p", "a", "y", "p", "a", "l">>,
     <<"c", "h", "e", "c", "k">>}

\* (cash|credit|...) at i: the end of the match, 0 without one
payment_word_end(s, i) ==
    IF \E word \in payment_words : occurs_at(s, i, word)
    THEN i + Len(CHOOSE word \in payment_words : occurs_at(s, i, word))
    ELSE 0

\* line 376: (paid\s+with\s+.*) at i: the end of the line, 0 without a match
paid_with_end(s, i) ==
    LET e == keyword_end(s, i, <<<<"p", "a", "i", "d">>, <<"w", "i", "t", "h">>>>)
    IN  IF e = 0 THEN 0 ELSE IF At(s, e) \notin SpaceChars THEN 0
        ELSE Len(s) + 1

\* lines 380-383: the first pattern that matches the lowered line
payment_of_line(line_lower) ==
    LET word == leftmost_match(line_lower,
                    [i \in 1..Len(line_lower) |-> payment_word_end(line_lower, i)])
        paid == leftmost_match(line_lower,
                    [i \in 1..Len(line_lower) |-> paid_with_end(line_lower, i)])
    IN  IF word.matched THEN word ELSE paid

\* lines 378-383: a later line replaces the method of an earlier line
RECURSIVE detect_payment_method(_)
detect_payment_method(lines) ==
    IF lines = <<>> THEN NoneStr
    ELSE IF payment_of_line(lower_str(lines[Len(lines)])).matched
    THEN Str(payment_of_line(lower_str(lines[Len(lines)])).text)
    ELSE detect_payment_method(SubSeq(lines, 1, Len(lines) - 1))

---------------------------------------------------------------------------
\* calculate_parsing_confidence and the parse.

\* sum(item["total"] for item in items), in ten-thousandths
RECURSIVE sum_totals(_)
sum_totals(items) ==
    IF items = <<>> THEN 0
    ELSE sum_totals(SubSeq(items, 1, Len(items) - 1)) + items[Len(items)].total

\* bool(x) of an optional amount: None and 0.0 are false
amount_truthy(x) == x.type # "NoneType" /\ x.val # 0

\* lines 403-426 with a confidence that starts at 0.1
calculate_parsing_confidence_from_one(items, total, subtotal, tax) ==
    LET confidence ==
            1 + (IF items = <<>> THEN 0 ELSE 3)
            + (IF amount_truthy(total) THEN 2 ELSE 0)
            + (IF amount_truthy(subtotal) THEN 1 ELSE 0)
            + (IF amount_truthy(tax) THEN 1 ELSE 0)
    IN  IF confidence > 10 THEN 10 ELSE confidence

\* lines 403-426, in tenths
calculate_parsing_confidence(items, total, subtotal, tax) ==
    LET calculated_total == sum_totals(items)
        difference == Abs(calculated_total - total.val * 100)
        match_bonus ==
            IF items = <<>> THEN 0
            ELSE IF amount_truthy(total) /\ difference < 1000 THEN 3
            ELSE IF amount_truthy(total) /\ difference < 10000 THEN 2
            ELSE 0
        confidence ==
            (IF items = <<>> THEN 0 ELSE 3) + match_bonus
            + (IF amount_truthy(total) THEN 2 ELSE 0)
            + (IF amount_truthy(subtotal) THEN 1 ELSE 0)
            + (IF amount_truthy(tax) THEN 1 ELSE 0)
    IN  IF confidence > 10 THEN 10 ELSE confidence

\* line 264: [line.strip() for line in text.split('\n') if line.strip()]
RECURSIVE stripped_lines(_)
stripped_lines(text) ==
    IF text = <<>> THEN <<>>
    ELSE stripped_lines(SubSeq(text, 1, Len(text) - 1))
         \o (IF strip(text[Len(text)]) = <<>> THEN <<>>
             ELSE <<strip(text[Len(text)])>>)

\* lines 295-296, 308: float() of a group of the line's match raises
match_raises(m) == m.matched /\ any_raises(m.texts)

\* lines 283-340: a float() of the item loop or of the total loop raises
\* ValueError, which nothing catches
raises_value_error(lines) ==
    \E i \in 1..Len(lines) :
        \/ Len(lines[i]) >= 3 /\ match_raises(match_item(lines[i]))
        \/ \E n \in 1..Len(total_patterns) :
              any_raises(total_texts(lower_str(lines[i]), total_patterns[n]))

\* the empty string: one line without characters
is_empty_string(text) == text = <<<<>>>>

\* amounts of the result are in hundredths, calculatedTotal and the items'
\* totals in ten-thousandths
advanced_parse_receipt_text(text) ==
    IF is_empty_string(text)
    THEN Return([items |-> <<>>, totalAmount |-> None, subtotal |-> None,
                 tax |-> None, purchaseDate |-> NoneStr, storeName |-> NoneStr,
                 paymentMethod |-> NoneStr, confidence |-> 0, rawText |-> text])
    ELSE IF raises_value_error(stripped_lines(text)) THEN Raise("ValueError")
    ELSE
        LET lines == stripped_lines(text)
            items == extract_items(lines)
            t == detect_totals(lines)
        IN  Return(
            [items |-> items,
             totalAmount |-> t.total_amount,
             subtotal |-> t.subtotal,
             tax |-> t.tax,
             purchaseDate |-> detect_date(lines),
             storeName |-> detect_store_name(lines),
             paymentMethod |-> detect_payment_method(lines),
             confidence |-> calculate_parsing_confidence(items, t.total_amount,
                                                         t.subtotal, t.tax),
             rawText |-> text,
             totalItems |-> Len(items),
             calculatedTotal |->
                IF items = <<>> THEN None ELSE Float(sum_totals(items))])

---------------------------------------------------------------------------
\* Receipts: the lines a text is made of, before split and strip.

BlankLine ==
    <<>>
SpacesLine ==
    <<" ", " ">>
TabLine ==
    <<"\t", " ">>
GroceryStoreLine ==
    <<"G", "R", "O", "C", "E", "R", "Y", " ", "S", "T", "O", "R", "E">>
AddressLine ==
    <<"1", "2", "3", " ", "M", "A", "I", "N", " ", "S", "T">>
MilkLine ==
    <<"M", "I", "L", "K", " ", " ", " ", " ", " ", " ", " ", " ", " ", " ", "3", ".", "4", "9">>
BreadLine ==
    <<"B", "R", "E", "A", "D", " ", " ", " ", " ", " ", " ", " ", " ", " ", "2", ".", "2", "9">>
TotalLine ==
    <<"T", "O", "T", "A", "L", " ", " ", " ", " ", " ", " ", " ", " ", "1", "9", ".", "1", "7">>
MilkTwoDigitLine ==
    <<"M", "I", "L", "K", " ", "1", "2", ".", "4", "9">>
MilkAtLine ==
    <<"M", "I", "L", "K", " ", "2", " ", "@", " ", "1", ".", "5", "0">>
MilkTimesLine ==
    <<"M", "I", "L", "K", " ", "2", " ", "x", " ", "1", ".", "5", "0">>
NameLine ==
    <<"E", "G", "G", "S">>
AmountLine ==
    <<"4", ".", "9", "9">>
TaxLine ==
    <<"T", "A", "X", " ", "1", ".", "5", "0">>
CashLine ==
    <<"C", "A", "S", "H", " ", "2", "0", ".", "0", "0">>
SubtotalLine ==
    <<"S", "U", "B", "T", "O", "T", "A", "L", " ", "9", ".", "9", "9">>
TelevisionLine ==
    <<"T", "V", " ", "1", "0", "0", "0", ".", "0", "0">>
ShortNameLine ==
    <<"A", "B", " ", "1", ".", "0", "0">>
IndentedLine ==
    <<" ", "M", "I", "L", "K", " ", "$", "3", ".", "4", "9", " ">>
SecondTaxLine ==
    <<"T", "A", "X", " ", "2", ".", "2", "5">>
SecondSubtotalLine ==
    <<"S", "U", "B", "T", "O", "T", "A", "L", " ", "7", ".", "0", "0">>
TotalWithTaxLine ==
    <<"T", "O", "T", "A", "L", " ", "2", "1", ".", "0", "0", " ", "I", "N", "C", "L", " ", "T", "A", "X">>
BalanceLine ==
    <<"B", "A", "L", "A", "N", "C", "E", " ", "2", "5", ".", "0", "0">>
DateLine ==
    <<"1", "2", "/", "2", "5", "/", "2", "0", "2", "4">>
IsoDateLine ==
    <<"2", "0", "2", "5", "-", "0", "1", "-", "0", "2">>
ZeroTotalLine ==
    <<"T", "O", "T", "A", "L", " ", "0", ".", "0", "0">>
SmallTotalLine ==
    <<"T", "O", "T", "A", "L", " ", "3", ".", "0", "5">>

LineInputs ==
    {BlankLine, SpacesLine, TabLine, GroceryStoreLine, AddressLine, MilkLine, BreadLine, TotalLine,
     MilkTwoDigitLine, MilkAtLine, MilkTimesLine, NameLine, AmountLine,
     TaxLine, CashLine, SubtotalLine, TelevisionLine, ShortNameLine, IndentedLine,
     SecondTaxLine, SecondSubtotalLine, TotalWithTaxLine, BalanceLine,
     DateLine, IsoDateLine, ZeroTotalLine, SmallTotalLine}

\* the receipt of final_receipt_test.py lines 14-25, without its last items
GroceryReceipt ==
    <<GroceryStoreLine, AddressLine, BlankLine, MilkLine, BreadLine, TotalLine>>

MaxLines == 2
TextInputs ==
    {GroceryReceipt}
    \cup UNION {[1..n -> LineInputs] : n \in 1..MaxLines}

\* a text has been received and not yet parsed
ParserInit ==
    /\ nutritional_database = load_nutritional_database
    /\ op = "__init__"
    /\ args \in [text : TextInputs]
    /\ outcome = Return("None")
    /\ rescales = 0

AdvancedParseReceiptText ==
    /\ op = "__init__"
    /\ op' = "advanced_parse_receipt_text"
    /\ outcome' = advanced_parse_receipt_text(args.text)
    /\ UNCHANGED <<nutritional_database, args, rescales>>

ParserSpec == ParserInit /\ [][AdvancedParseReceiptText]_vars

---------------------------------------------------------------------------
\* the last call parsed a text
Parsed == op = "advanced_parse_receipt_text"

\* every character of the text is white space
OnlyWhitespace(text) ==
    \A i \in 1..Len(text) : \A k \in 1..Len(text[i]) : text[i][k] \in SpaceChars

\* C15: parsing the empty string, or a string of white space and newlines
\* only, returns a receipt without items, with totalAmount, subtotal, tax,
\* purchaseDate, storeName and paymentMethod None and confidence 0.0, and
\* raises nothing.
C15_EmptyText ==
    (Parsed /\ OnlyWhitespace(args.text))
    => /\ outcome.kind = "return"
       /\ outcome.value.items = <<>>
       /\ outcome.value.totalAmount = None
       /\ outcome.value.subtotal = None
       /\ outcome.value.tax = None
       /\ outcome.value.purchaseDate = NoneStr
       /\ outcome.value.storeName = NoneStr
       /\ outcome.value.paymentMethod = NoneStr
       /\ outcome.value.confidence = 0

\* C15 witness: a text of two lines, both white space only, was parsed
C15_Witness ==
    /\ Parsed
    /\ Len(args.text) = 2
    /\ args.text[1] # <<>>
    /\ OnlyWhitespace(args.text)
    /\ outcome.kind = "return"
    /\ outcome.value.items = <<>>

\* C16: the grocery receipt gives exactly the items MILK (3.49, quantity 1,
\* total 3.49) and BREAD (2.29, quantity 1, total 2.29) in this order,
\* totalAmount 19.17 and storeName 'GROCERY STORE'.
C16_GroceryReceipt ==
    (Parsed /\ args.text = GroceryReceipt)
    => /\ outcome.kind = "return"
       /\ outcome.value.items =
            <<[name |-> <<"M", "I", "L", "K">>, price |-> 349,
               quantity |-> 100, total |-> 34900],
              [name |-> <<"B", "R", "E", "A", "D">>, price |-> 229,
               quantity |-> 100, total |-> 22900]>>
       /\ outcome.value.totalAmount = Float(1917)
       /\ outcome.value.storeName = Str(GroceryStoreLine)

\* C16 witness: the grocery receipt was parsed and gave two items
C16_Witness ==
    /\ Parsed
    /\ args.text = GroceryReceipt
    /\ outcome.kind = "return"
    /\ Len(outcome.value.items) = 2

---------------------------------------------------------------------------
\* What the specification says of single lines, in terms of the text alone.

\* the i-th line of the parsed text, stripped
Line(i) == strip(args.text[i])

\* the items of the receipt returned
Items == outcome.value.items

\* the skip keywords
SkipKeywords ==
    {<<"t", "o", "t", "a", "l">>, <<"s", "u", "b", "t", "o", "t", "a", "l">>,
     <<"t", "a", "x">>, <<"c", "a", "s", "h">>,
     <<"c", "h", "a", "n", "g", "e">>}

\* s contains a skip keyword, in any case
HasSkipKeyword(s) == \E w \in SkipKeywords : contains(lower_str(s), w)

\* s holds an amount (digits, a dot, two digits) somewhere
HasAmount(s) == \E i \in 1..Len(s) : amount_end(s, i) # 0

\* where the amount that ends s starts, 0 when s does not end with an amount
TrailingAmountStart(s) ==
    LET starts == {i \in 1..Len(s) : amount_end(s, i) = Len(s) + 1}
    IN  IF starts = {} THEN 0 ELSE Least(starts)

\* s is exactly an amount
BareAmount(s) == TrailingAmountStart(s) = 1

\* C17: when a line without a skip keyword and without an amount is followed
\* by a line that is exactly an amount, the receipt has an item whose name
\* is the first line and whose price is the amount.
C17_SplitLineFallback ==
    Parsed
    => \A i \in 1..(Len(args.text) - 1) :
         (/\ Line(i) # <<>>
          /\ ~HasSkipKeyword(Line(i))
          /\ ~HasAmount(Line(i))
          /\ BareAmount(Line(i + 1)))
         => \E k \in 1..Len(Items) :
              /\ Items[k].name = Line(i)
              /\ Items[k].price = amount_at(Line(i + 1), 1)

\* C18: no item of the receipt has a name that contains a skip keyword
\* (TOTAL, SUBTOTAL, TAX, CASH, CHANGE): the name would come from a line
\* with a skip keyword and a trailing price.
C18_SkipKeywordLinesAreNoItems ==
    Parsed => \A k \in 1..Len(Items) : ~HasSkipKeyword(Items[k].name)

\* the line is a name of letters, white space and an amount below 1000 that
\* ends it: where the amount starts, 0 for another line
NamePriceStart(s) ==
    LET n == run_end(s, 1, LetterChars)
        j == run_end(s, n, SpaceChars)
    IN  IF n > 1 /\ j > n /\ amount_end(s, j) = Len(s) + 1
           /\ amount_at(s, j) < 100000
        THEN j ELSE 0

\* the line is a name of letters, an integer quantity, '@' or 'x' and an
\* amount that ends it, white space between them: the starts of the
\* quantity and of the amount, <<0, 0>> for another line
NameQuantityPriceStarts(s) ==
    LET n == run_end(s, 1, LetterChars)
        q == run_end(s, n, SpaceChars)
        e == run_end(s, q, DigitChars)
        o == run_end(s, e, SpaceChars)
        j == run_end(s, o + 1, SpaceChars)
    IN  IF n > 1 /\ q > n /\ e > q /\ o > e /\ At(s, o) \in {"@", "x"}
           /\ j > o + 1 /\ amount_end(s, j) = Len(s) + 1
        THEN <<q, j>> ELSE <<0, 0>>

\* C19: a line without skip keyword made of a name, white space and a
\* trailing price p < 1000 with any number of integer digits gives an item
\* with price p, quantity 1 and total p; a line 'name q @ p' or
\* 'name q x p' gives an item with quantity q, price p and total q * p.
C19_SameLineExtraction ==
    Parsed
    => \A i \in 1..Len(args.text) :
         LET s == Line(i)
             n == run_end(s, 1, LetterChars)
             name == SubSeq(s, 1, n - 1)
             j == NamePriceStart(s)
             qj == NameQuantityPriceStarts(s)
         IN  /\ (j # 0 /\ ~HasSkipKeyword(s))
                => \E k \in 1..Len(Items) :
                     Items[k] = [name |-> name, price |-> amount_at(s, j),
                                 quantity |-> 100,
                                 total |-> 100 * amount_at(s, j)]
             /\ (qj[1] # 0 /\ ~HasSkipKeyword(s))
                => LET q == 100 * int_of(s, qj[1], run_end(s, qj[1], DigitChars))
                       p == amount_at(s, qj[2])
                   IN  \E k \in 1..Len(Items) :
                         Items[k] = [name |-> name, price |-> p,
                                     quantity |-> q, total |-> q * p]

\* the lines of the text that hold an amount and do not end with an amount
\* of 1000 or more
LinesThatMayGiveItems ==
    {i \in 1..Len(args.text) :
        /\ HasAmount(Line(i))
        /\ \/ TrailingAmountStart(Line(i)) = 0
           \/ amount_at(Line(i), TrailingAmountStart(Line(i))) < 100000}

\* C20: every item has a name of at least 3 characters and a price below
\* 1000, and the lines whose trailing amount is 1000 or more give no item:
\* there are at most as many items as other lines with an amount.
C20_NoShortNameNoLargePrice ==
    Parsed
    => /\ \A k \in 1..Len(Items) :
            Len(Items[k].name) >= 3 /\ Items[k].price < 100000
       /\ Len(Items) <= Cardinality(LinesThatMayGiveItems)

---------------------------------------------------------------------------
\* What the specification says of the totals and the date, in terms of the
\* text alone.

\* the amount (hundredths) that follows the leftmost match of
\* words[\s:]*\$? in the line s, lowered; -1 without a match
KeywordAmount(s, words) ==
    LET l == lower_str(s)
        starts == {i \in 1..Len(l) : keyword_amount_start(l, i, words) # 0}
    IN  IF starts = {} THEN -1
        ELSE amount_at(l, keyword_amount_start(l, Least(starts), words))

\* the same for matches that start a word: 'total' inside 'subtotal' does
\* not count
WordAmount(s, words) ==
    LET l == lower_str(s)
        starts == {i \in 1..Len(l) :
                      /\ keyword_amount_start(l, i, words) # 0
                      /\ At(l, i - 1) \notin LetterChars}
    IN  IF starts = {} THEN -1
        ELSE amount_at(l, keyword_amount_start(l, Least(starts), words))

TaxWords == <<<<"t", "a", "x">>>>
SubtotalWords == <<<<"s", "u", "b", "t", "o", "t", "a", "l">>>>

\* the lines of the text that match the pattern of words
LinesWith(words) == {i \in 1..Len(args.text) : KeywordAmount(Line(i), words) # -1}

\* C21: when lines match the tax pattern, tax is the amount of the first of
\* them in text order, and likewise subtotal for the subtotal pattern.
C21_FirstTaxAndSubtotalWin ==
    Parsed
    => /\ LinesWith(TaxWords) # {}
          => outcome.value.tax
             = Float(KeywordAmount(Line(Least(LinesWith(TaxWords))), TaxWords))
       /\ LinesWith(SubtotalWords) # {}
          => outcome.value.subtotal
             = Float(KeywordAmount(Line(Least(LinesWith(SubtotalWords))),
                                   SubtotalWords))

\* the generic total-family patterns: total, amount due, balance, grand total
GenericTotalWords ==
    {<<<<"t", "o", "t", "a", "l">>>>,
     <<<<"a", "m", "o", "u", "n", "t">>, <<"d", "u", "e">>>>,
     <<<<"b", "a", "l", "a", "n", "c", "e">>>>,
     <<<<"g", "r", "a", "n", "d">>, <<"t", "o", "t", "a", "l">>>>}

\* the amounts of the lines that match a generic total-family pattern
GenericTotalAmounts ==
    {WordAmount(Line(i), words) :
        i \in 1..Len(args.text), words \in GenericTotalWords} \ {-1}

\* the greatest element of a nonempty set of integers
Greatest(ks) == CHOOSE k \in ks : \A j \in ks : j <= k

\* C22: totalAmount is the largest amount among the lines that match a
\* generic total-family pattern, whatever else the lines contain, and None
\* only if no line matches one.
C22_LargestTotal ==
    Parsed
    => outcome.value.totalAmount
       = IF GenericTotalAmounts = {} THEN None
         ELSE Float(Greatest(GenericTotalAmounts))

\* no line matches any of the total keyword patterns
NoTotalKeyword ==
    \A i \in 1..Len(args.text) : \A n \in 1..Len(total_patterns) :
        KeywordAmount(Line(i), total_patterns[n]) = -1

\* the money-shaped amounts (digits, a dot, two digits, as a whole token of
\* digits) of all lines that lie in 5.00 .. 200.00
PlausibleAmounts ==
    {a \in UNION {{amount_at(Line(i), k) :
                      k \in {j \in 1..Len(Line(i)) :
                                /\ amount_end(Line(i), j) # 0
                                /\ At(Line(i), j - 1) \notin DigitChars}} :
                  i \in 1..Len(args.text)} :
        a >= 500 /\ a <= 20000}

\* C23: when no line matches a total keyword pattern, totalAmount is the
\* greatest money-shaped amount in [5, 200] of the text, and None only when
\* there is none.
C23_TotalFallback ==
    (Parsed /\ NoTotalKeyword)
    => outcome.value.totalAmount
       = IF PlausibleAmounts = {} THEN None
         ELSE Float(Greatest(PlausibleAmounts))

\* the lines of the text that contain a date
DateLines == {i \in 1..Len(args.text) : date_of_line(Line(i)).matched}

\* C24: when lines contain a date, purchaseDate is the matched substring of
\* the first of them in text order.
C24_FirstDateWins ==
    (Parsed /\ DateLines # {})
    => outcome.value.purchaseDate
       = Str(date_of_line(Line(Least(DateLines))).text)

---------------------------------------------------------------------------
\* an optional amount was found: it is not None (0.00 counts as found)
Found(x) == x.type # "NoneType"

\* |sum(line totals) - total| in ten-thousandths
TotalDifference == Abs(sum_totals(Items) - outcome.value.totalAmount.val * 100)

\* the weighted sum of the specification, in tenths
WeightedSum ==
    (IF Items # <<>> THEN 3 ELSE 0)
    + (IF Items # <<>> /\ Found(outcome.value.totalAmount)
          /\ TotalDifference < 1000 THEN 3
       ELSE IF Items # <<>> /\ Found(outcome.value.totalAmount)
          /\ TotalDifference < 10000 THEN 2
       ELSE 0)
    + (IF Found(outcome.value.totalAmount) THEN 2 ELSE 0)
    + (IF Found(outcome.value.subtotal) THEN 1 ELSE 0)
    + (IF Found(outcome.value.tax) THEN 1 ELSE 0)

\* C25: confidence lies in [0, 1] and is min(1.0, a + b + c + d + e) with
\* a = 0.3 for items, b = 0.3 or 0.2 for a total within 0.10 or 1.00 of the
\* sum of the line totals, c = 0.2 for a total found, d = 0.1 for a subtotal
\* found, e = 0.1 for a tax found, an amount of 0.00 being found.
C25_ConfidenceFormula ==
    Parsed
    => /\ outcome.value.confidence \in 0..10
       /\ outcome.value.confidence
          = IF WeightedSum > 10 THEN 10 ELSE WeightedSum

---------------------------------------------------------------------------
\* the fields of a complete receipt record
ReceiptFields ==
    {"items", "totalAmount", "subtotal", "tax", "purchaseDate", "storeName",
     "paymentMethod", "confidence", "rawText"}

\* the items are in the order of their lines: a strictly increasing choice of
\* lines gives them one by one
ItemsInLineOrder ==
    \E f \in [1..Len(Items) -> 1..Len(args.text)] :
        /\ \A k1, k2 \in 1..Len(Items) : k1 < k2 => f[k1] < f[k2]
        /\ \A k \in 1..Len(Items) : items_of_line(Line(f[k])) = <<Items[k]>>

\* C26: for every text the parser returns a record with the fields items,
\* totalAmount, subtotal, tax, purchaseDate, storeName, paymentMethod,
\* confidence and rawText, the items in the order of their lines, and it
\* raises nothing.
C26_AlwaysACompleteRecord ==
    Parsed
    => /\ outcome.kind = "return"
       /\ ReceiptFields \subseteq DOMAIN outcome.value
       /\ outcome.value.rawText = args.text
       /\ ItemsInLineOrder

\* C26 witness: a text whose two lines are both misread (an amount of 1000.00
\* split into a quantity and a price, a payment line taken as an item) was
\* parsed and gave two items
C26_Witness ==
    /\ Parsed
    /\ args.text = <<TelevisionLine, CashLine>>
    /\ outcome.kind = "return"
    /\ Len(Items) = 2
    /\ Items[1].name = <<"T", "V">>

---------------------------------------------------------------------------
\* the last call was calculate_precise_nutrition
PreciseCall == op = "calculate_precise_nutrition"

\* the food name is empty or not a string
BadName(food_name) ==
    food_name.type # "str" \/ food_name.val = ""

\* the weight is not a number, not positive or above 10000 g (a bool is a
\* number, as for isinstance)
BadWeight(w) ==
    w.type \notin {"int", "float", "bool"} \/ w.val <= 0 \/ w.val > 100000

\* C27: calculate_precise_nutrition reports an empty or non-string food name
\* first, whatever the weight; otherwise an invalid weight as InvalidInput,
\* also for an unknown name; and UnknownFood only for a non-empty string name
\* with a valid weight.
C27_ErrorPrecedence ==
    PreciseCall
    => /\ BadName(args.food_name)
          => /\ IsErrorResult(outcome, "InvalidInput")
             /\ outcome.value.error = "Invalid food name provided"
       /\ (~BadName(args.food_name) /\ BadWeight(args.confirmed_weight_g))
          => /\ IsErrorResult(outcome, "InvalidInput")
             /\ outcome.value.error # "Invalid food name provided"
       /\ IsErrorResult(outcome, "UnknownFood")
          => /\ ~BadName(args.food_name)
             /\ ~BadWeight(args.confirmed_weight_g)
             /\ ~KnownFood(args.food_name)

\* C27 witness: an unknown food name with a weight above 10000 g was
\* reported as an invalid input
C27_Witness ==
    /\ PreciseCall
    /\ args.food_name = Str("nonexistent_food_xyz")
    /\ args.confirmed_weight_g = Num("int", 100010)
    /\ IsErrorResult(outcome, "InvalidInput")

---------------------------------------------------------------------------
\* the recommendations that call a portion large
LargeRecommendations ==
    {"Unusually large portion - consider splitting",
     "Larger than typical - ensure accuracy"}

\* C28: validate_portion_size gives the recommendation 'Unusually large
\* portion' or 'Larger than typical' only for a weight greater than the
\* food's typical portion.
C28_LargeOnlyAboveTypical ==
    (/\ op = "validate_portion_size"
     /\ KnownFood(args.food_name)
     /\ is_number(args.weight_g)
     /\ outcome.kind = "return"
     /\ outcome.value.recommendation \in LargeRecommendations)
    => args.weight_g.val
       > nutritional_database[args.food_name.val].typical_portion_size

---------------------------------------------------------------------------
\* PrioritizationService._apply_budget_constraints of ai_shopping_service.py.
\* Money is in TENTHS of the currency unit (3.0 is 30); an item is a record
\* of the ShoppingItem fields the method reads: name, category, price (None
\* or a float) and quantity.

\* lines 350-357: cost_estimates.get(item.category, 3.0)
base_cost(category) ==
    CASE category = "fruits" -> 30
      [] category = "vegetables" -> 25
      [] category = "dairy" -> 40
      [] category = "meat" -> 80
      [] category = "grains" -> 35
      [] category = "other" -> 20
      [] OTHER -> 30

\* lines 347-360
estimate_item_cost(item) == base_cost(item.category) * item.quantity

\* line 336: item.price or self._estimate_item_cost(item); None and 0.0 are
\* false
estimated_cost(item) ==
    IF amount_truthy(item.price) THEN item.price.val ELSE estimate_item_cost(item)

\* lines 335-343: the loop from the i-th item on, with the cost and the list
\* accumulated so far
RECURSIVE budget_loop(_, _, _, _, _)
budget_loop(items, i, total_cost, budget_aware_items, budget_limit) ==
    IF i > Len(items) THEN budget_aware_items
    ELSE IF total_cost + estimated_cost(items[i]) <= budget_limit
    THEN budget_loop(items, i + 1, total_cost + estimated_cost(items[i]),
                     Append(budget_aware_items, items[i]), budget_limit)
    ELSE IF total_cost * 10 < budget_limit * 9
    THEN Append(budget_aware_items, items[i])
    ELSE budget_loop(items, i + 1, total_cost, budget_aware_items, budget_limit)

\* lines 330-345
apply_budget_constraints(items, budget_limit) ==
    budget_loop(items, 1, 0, <<>>, budget_limit)

\* Shopping items: one without price, one with a price, one with the price
\* 0.0, one with a quantity of 2, one of a category without estimate.
ShoppingItems ==
    {[name |-> "milk", category |-> "dairy", price |-> None, quantity |-> 1],
     [name |-> "steak", category |-> "meat", price |-> Float(250), quantity |-> 1],
     [name |-> "salt", category |-> "other", price |-> Float(0), quantity |-> 1],
     [name |-> "rice", category |-> "grains", price |-> None, quantity |-> 2],
     [name |-> "chips", category |-> "snacks", price |-> None, quantity |-> 1]}

MaxItems == 3

\* the lists of at most MaxItems different items, as prioritize_items sorted
\* them (line 298)
ItemLists ==
    {l \in UNION {[1..n -> ShoppingItems] : n \in 0..MaxItems} :
        \A k1, k2 \in 1..Len(l) : k1 # k2 => l[k1] # l[k2]}

\* positive budget limits, in tenths
BudgetLimits == {50, 100, 200}

\* prioritize_items has sorted the items and is about to apply the budget
BudgetInit ==
    /\ nutritional_database = load_nutritional_database
    /\ op = "__init__"
    /\ args \in [items : ItemLists, budget_limit : BudgetLimits]
    /\ outcome = Return("None")
    /\ rescales = 0

ApplyBudgetConstraints ==
    /\ op = "__init__"
    /\ op' = "_apply_budget_constraints"
    /\ outcome' = Return(apply_budget_constraints(args.items, args.budget_limit))
    /\ UNCHANGED <<nutritional_database, args, rescales>>

BudgetSpec == BudgetInit /\ [][ApplyBudgetConstraints]_vars

\* the cost of an item: its price when one is given, else its estimate
CostOf(item) ==
    IF item.price # None THEN item.price.val ELSE estimate_item_cost(item)

RECURSIVE SumOfCosts(_)
SumOfCosts(items) ==
    IF items = <<>> THEN 0 ELSE CostOf(Head(items)) + SumOfCosts(Tail(items))

\* sub is items with some elements left out, the order kept
KeepsOrder(sub, items) ==
    \E f \in [1..Len(sub) -> 1..Len(items)] :
        /\ \A k1, k2 \in 1..Len(sub) : k1 < k2 => f[k1] < f[k2]
        /\ \A k \in 1..Len(sub) : sub[k] = items[f[k]]

\* C29: the costs of the items _apply_budget_constraints returns sum to at
\* most 1.1 * budget_limit, and the items are in their priority order.
C29_BudgetWithinBuffer ==
    op = "_apply_budget_constraints"
    => /\ SumOfCosts(outcome.value) * 10 <= 11 * args.budget_limit
       /\ KeepsOrder(outcome.value, args.items)

---------------------------------------------------------------------------
\* ai_meal_generator.py: AIPersonalizationEngine.
\* Scores are exact rationals in units of 1/8400: every tenth, every tenth
\* divided by a meal's 6, 7 or 8 ingredients, and 0.3 * 0.2 are whole units.

ScoreUnit == 8400

\* n tenths as a score
Score(n) == n * (ScoreUnit \div 10)

\* lines 385-485, the fields the scoring reads
load_meal_database ==
    <<[name |-> "Avocado Toast with Scrambled Eggs",
       ingredients |-> <<"bread", "avocado", "eggs", "salt", "pepper", "butter">>,
       meal_type |-> "breakfast", prep_time |-> 10, calories |-> 350,
       dietary_labels |-> {"vegetarian"}, cuisine |-> "American",
       difficulty |-> "beginner", protein |-> 15],
      [name |-> "Greek Quinoa Bowl",
       ingredients |-> <<"quinoa", "cucumber", "tomato", "feta", "olives",
                         "olive_oil", "lemon">>,
       meal_type |-> "lunch", prep_time |-> 25, calories |-> 420,
       dietary_labels |-> {"vegetarian", "gluten_free"},
       cuisine |-> "Mediterranean", difficulty |-> "intermediate",
       protein |-> 18],
      [name |-> "Grilled Chicken with Sweet Potato",
       ingredients |-> <<"chicken_breast", "sweet_potato", "broccoli",
                         "olive_oil", "garlic", "herbs">>,
       meal_type |-> "dinner", prep_time |-> 35, calories |-> 480,
       dietary_labels |-> {"gluten_free", "dairy_free"},
       cuisine |-> "American", difficulty |-> "intermediate", protein |-> 35],
      [name |-> "Berry Protein Smoothie",
       ingredients |-> <<"berries", "protein_powder", "banana", "almond_milk",
                         "spinach", "chia_seeds">>,
       meal_type |-> "snack", prep_time |-> 5, calories |-> 280,
       dietary_labels |-> {"vegan", "gluten_free"}, cuisine |-> "Health",
       difficulty |-> "beginner", protein |-> 25],
      [name |-> "Vegetarian Stir Fry",
       ingredients |-> <<"tofu", "bell_peppers", "broccoli", "carrots",
                         "soy_sauce", "ginger", "garlic", "rice">>,
       meal_type |-> "dinner", prep_time |-> 20, calories |-> 380,
       dietary_labels |-> {"vegetarian", "vegan"}, cuisine |-> "Asian",
       difficulty |-> "intermediate", protein |-> 20]>>

\* UserPreference(user_id) with the defaults of __post_init__ (lines 35-49)
UserPreference ==
    [dietary_restrictions |-> {}, favorite_ingredients |-> {},
     disliked_ingredients |-> {}, preferred_cuisines |-> {},
     cooking_skill |-> "intermediate",
     time_constraints |-> [breakfast |-> 15, lunch |-> 30, dinner |-> 45,
                           snack |-> 10],
     health_goals |-> {"maintenance"}]

\* str.lower() on the ingredient names of the meal model
name_lower(s) ==
    CASE s = "Bread" -> "bread" [] s = "EGGS" -> "eggs" [] OTHER -> s

\* lines 315-325, in tenths: the sum over the meal's ingredients
RECURSIVE ingredient_score(_, _, _, _)
ingredient_score(ingredients, user_prefs, ingredient_prefs, available_ingredients) ==
    IF ingredients = <<>> THEN 0
    ELSE LET ingredient == Head(ingredients)
         IN (IF ingredient \in DOMAIN ingredient_prefs
                THEN ingredient_prefs[ingredient] ELSE 0)
            + (IF ingredient \in user_prefs.favorite_ingredients THEN 3 ELSE 0)
            - (IF ingredient \in user_prefs.disliked_ingredients THEN 5 ELSE 0)
            + (IF ingredient \in Range(available_ingredients) THEN 2 ELSE 0)
            + ingredient_score(Tail(ingredients), user_prefs, ingredient_prefs,
                               available_ingredients)

\* lines 340-345
violation_map ==
    [vegetarian |-> {"meat", "chicken", "beef", "pork", "fish"},
     vegan |-> {"meat", "chicken", "beef", "pork", "fish", "dairy", "eggs"},
     gluten_free |-> {"wheat", "bread", "pasta", "flour"},
     dairy_free |-> {"milk", "cheese", "butter", "yogurt"}]

\* lines 347-352: the restrictions of the user the meal violates
violations(meal_data, user_restrictions) ==
    {restriction \in user_restrictions \cap DOMAIN violation_map :
        \E ing \in violation_map[restriction] :
            name_lower(ing) \in {name_lower(i) : i \in Range(meal_data.ingredients)}}

\* lines 329-352, in tenths
dietary_score(meal_data, user_restrictions) ==
    IF user_restrictions = {} THEN 0
    ELSE IF meal_data.dietary_labels \cap user_restrictions # {} THEN 3
    ELSE -8 * Cardinality(violations(meal_data, user_restrictions))

\* lines 354-359, in tenths
time_score(meal_data, user_prefs) ==
    LET max_time == IF meal_data.meal_type \in DOMAIN user_prefs.time_constraints
                    THEN user_prefs.time_constraints[meal_data.meal_type]
                    ELSE 60
    IN IF meal_data.prep_time <= max_time THEN 2 ELSE -3

\* lines 365-373, in tenths
difficulty_scores(d) ==
    CASE d = "beginner" -> 1 [] d = "intermediate" -> 2 [] d = "advanced" -> 3
      [] OTHER -> 2
skill_score(meal_data, user_prefs) ==
    IF difficulty_scores(meal_data.difficulty)
           <= difficulty_scores(user_prefs.cooking_skill)
    THEN 1 ELSE -2

\* lines 375-381, in tenths
health_score(meal_data, user_prefs) ==
    IF "weight_loss" \in user_prefs.health_goals
    THEN (IF meal_data.calories < 400 THEN 2 ELSE 0)
    ELSE IF "muscle_gain" \in user_prefs.health_goals
    THEN (IF meal_data.protein > 20 THEN 2 ELSE 0)
    ELSE 0

\* line 383
clamp_score(score) ==
    IF score < 0 THEN 0 ELSE IF score > ScoreUnit THEN ScoreUnit ELSE score

\* lines 306-383
calculate_meal_score(meal_data, user_prefs, ingredient_prefs, available_ingredients) ==
    clamp_score(
        Score(5)
        + (Score(ingredient_score(meal_data.ingredients, user_prefs,
                                   ingredient_prefs, available_ingredients))
           \div Len(meal_data.ingredients))
        + Score(dietary_score(meal_data, user_prefs.dietary_restrictions))
        + Score(time_score(meal_data, user_prefs))
        + Score(IF meal_data.cuisine \in user_prefs.preferred_cuisines
                 THEN 2 ELSE 0)
        + Score(skill_score(meal_data, user_prefs))
        + Score(health_score(meal_data, user_prefs)))

\* lines 290-304, the fields the claims read
GeneratedMeal(best_meal_data, meal_type, confidence) ==
    [name |-> best_meal_data.name, ingredients |-> best_meal_data.ingredients,
     meal_type |-> meal_type, confidence_score |-> confidence]

\* line 267, score > 0.3. The score is a sum of binary floating point
\* numbers, so a score whose exact value is 0.3 comes out just above it
\* (0.5 - 0.3 + 0.1 is 0.30000000000000004) or not, as the terms fall: at
\* the threshold the test can go either way.
above_threshold(score) ==
    IF score = Score(3) THEN {TRUE, FALSE} ELSE {score > Score(3)}

\* lines 247-304: what _generate_single_meal can return, None included when
\* no meal has to pass the threshold. The sort key of line 271 adds
\* unbounded noise to every score, so any meal that passed can come first.
generate_single_meal(user_prefs, ingredient_prefs, meal_type, available_ingredients, meal_database) ==
    LET of_type == {j \in 1..Len(meal_database) :
                      meal_database[j].meal_type = meal_type}
        score == [j \in of_type |->
                    calculate_meal_score(meal_database[j], user_prefs,
                                         ingredient_prefs, available_ingredients)]
    IN {GeneratedMeal(meal_database[j], meal_type, score[j]) :
          j \in {k \in of_type : TRUE \in above_threshold(score[k])}}
       \cup (IF \A j \in of_type : FALSE \in above_threshold(score[j])
             THEN {None} ELSE {})

\* lines 228-230
meal_types_of(meals_per_day) ==
    IF meals_per_day > 3 THEN <<"breakfast", "lunch", "dinner", "snack">>
    ELSE <<"breakfast", "lunch", "dinner">>

\* lines 232-243: the lists the loop can build from its k-th round on, where
\* options[t] is what _generate_single_meal can return for meal type t; a
\* None is not appended (line 242)
RECURSIVE generated_from(_, _, _, _)
generated_from(options, meal_types, k, n) ==
    IF k > n THEN {<<>>}
    ELSE LET here == options[meal_types[((k - 1) % Len(meal_types)) + 1]]
             rest == generated_from(options, meal_types, k + 1, n)
         IN {IF meal = None THEN r ELSE <<meal>> \o r :
               meal \in here, r \in rest}

\* lines 215-217: the preferences stored for the user after the call
stored_preferences(user_preferences) ==
    IF user_preferences = None THEN UserPreference ELSE user_preferences

\* lines 208-245: the lists generate_personalized_meals can return
generate_personalized_meals(user_preferences, ingredient_preferences, days, meals_per_day, available_ingredients) ==
    LET meal_types == meal_types_of(meals_per_day)
        options == [t \in Range(meal_types) |->
                      generate_single_meal(stored_preferences(user_preferences),
                                           ingredient_preferences, t,
                                           available_ingredients,
                                           load_meal_database)]
    IN generated_from(options, meal_types, 1, days * Len(meal_types))

\* line 514: item.get('days_left', 0)
days_left_of(item) ==
    IF "days_left" \in DOMAIN item THEN item.days_left ELSE 0

\* lines 507-518: the waste reduction score the ingredients add, times 0.2
\* (line 523), in score units: 0.5 * 0.2 and 0.3 * 0.2
RECURSIVE waste_reduction_score(_, _, _)
waste_reduction_score(ingredients, expiring_ingredients, i) ==
    IF ingredients = <<>> THEN 0
    ELSE IF i > Len(expiring_ingredients)
    THEN waste_reduction_score(Tail(ingredients), expiring_ingredients, 1)
    ELSE (IF name_lower(expiring_ingredients[i].name) = name_lower(Head(ingredients))
          THEN (IF days_left_of(expiring_ingredients[i]) <= 2 THEN Score(1)
                ELSE IF days_left_of(expiring_ingredients[i]) <= 5
                THEN (3 * Score(2)) \div 10
                ELSE 0)
          ELSE 0)
         + waste_reduction_score(ingredients, expiring_ingredients, i + 1)

\* lines 507-509
ingredients_used(meal, expiring_items) ==
    Cardinality({k \in 1..Len(meal.ingredients) :
                   name_lower(meal.ingredients[k]) \in Range(expiring_items)})

\* lines 503-524: the meals that use an expiring ingredient, re-scored
RECURSIVE optimized_meals(_, _, _)
optimized_meals(waste_reducing_meals, expiring_ingredients, expiring_items) ==
    IF waste_reducing_meals = <<>> THEN <<>>
    ELSE LET meal == Head(waste_reducing_meals)
             rest == optimized_meals(Tail(waste_reducing_meals),
                                     expiring_ingredients, expiring_items)
         IN IF ingredients_used(meal, expiring_items) > 0
            THEN <<[meal EXCEPT !.confidence_score =
                       @ + waste_reduction_score(meal.ingredients,
                                                 expiring_ingredients, 1)]>>
                 \o rest
            ELSE rest

\* lines 487-526: the lists optimize_for_waste_reduction can return
optimize_for_waste_reduction(user_preferences, ingredient_preferences, expiring_ingredients) ==
    LET expiring_items == [k \in 1..Len(expiring_ingredients) |->
                             name_lower(expiring_ingredients[k].name)]
    IN {optimized_meals(meals, expiring_ingredients, expiring_items) :
          meals \in generate_personalized_meals(user_preferences,
                                                ingredient_preferences, 3, 3,
                                                expiring_items)}

\* the preferences the engine can hold for the user: none yet (None), or a
\* UserPreference that update_user_preferences or learn_from_meal stored
UserPreferences ==
    {None} \cup
    [dietary_restrictions : {{}, {"vegetarian"}, {"vegan", "gluten_free"}},
     favorite_ingredients : {{}, {"bread", "eggs", "avocado"}},
     disliked_ingredients : {{}, {"broccoli"}},
     preferred_cuisines : {{}, {"American"}},
     cooking_skill : {"beginner", "intermediate"},
     time_constraints : {UserPreference.time_constraints,
                         [breakfast |-> 5, lunch |-> 30, dinner |-> 30,
                          snack |-> 10]},
     health_goals : {{"maintenance"}, {"weight_loss"}, {"muscle_gain"}}]

\* the ingredient preferences learn_from_meal leaves after one meal rated 5
\* or 1 (lines 154-164), in tenths
IngredientPreferences ==
    {<<>>, [i \in {"eggs", "bread"} |-> 1], [i \in {"broccoli", "garlic"} |-> -1]}

AvailableIngredients == {<<>>, <<"bread", "eggs">>, <<"tofu">>}

ExpiringIngredients ==
    {<<>>,
     <<[name |-> "bread", days_left |-> 1]>>,
     <<[name |-> "bread", days_left |-> 1], [name |-> "eggs", days_left |-> 1]>>,
     <<[name |-> "Bread", days_left |-> 4], [name |-> "tofu", days_left |-> 9]>>,
     <<[name |-> "bread"], [name |-> "EGGS", days_left |-> 6]>>}

MaxDays == 2

\* the engine holds the user's preferences and a call is about to be made
MealInit ==
    /\ nutritional_database = load_nutritional_database
    /\ op = "__init__"
    /\ args \in
         [call : {"generate_personalized_meals"},
          user_preferences : UserPreferences,
          ingredient_preferences : IngredientPreferences,
          days : 1..MaxDays, meals_per_day : {3, 4},
          available_ingredients : AvailableIngredients]
         \cup
         [call : {"optimize_for_waste_reduction"},
          user_preferences : UserPreferences,
          ingredient_preferences : IngredientPreferences,
          expiring_ingredients : ExpiringIngredients]
    /\ outcome = Return("None")
    /\ rescales = 0

GeneratePersonalizedMeals ==
    /\ op = "__init__"
    /\ args.call = "generate_personalized_meals"
    /\ \E meals \in generate_personalized_meals(
                        args.user_preferences, args.ingredient_preferences,
                        args.days, args.meals_per_day,
                        args.available_ingredients) :
           outcome' = Return(meals)
    /\ op' = "generate_personalized_meals"
    /\ args' = [args EXCEPT !.user_preferences = stored_preferences(@)]
    /\ UNCHANGED <<nutritional_database, rescales>>

OptimizeForWasteReduction ==
    /\ op = "__init__"
    /\ args.call = "optimize_for_waste_reduction"
    /\ \E meals \in optimize_for_waste_reduction(
                        args.user_preferences, args.ingredient_preferences,
                        args.expiring_ingredients) :
           outcome' = Return(meals)
    /\ op' = "optimize_for_waste_reduction"
    /\ args' = [args EXCEPT !.user_preferences = stored_preferences(@)]
    /\ UNCHANGED <<nutritional_database, rescales>>

MealNext == GeneratePersonalizedMeals \/ OptimizeForWasteReduction

MealSpec == MealInit /\ [][MealNext]_vars

\* the meals a call has returned
ReturnedMeals ==
    IF op \in {"generate_personalized_meals", "optimize_for_waste_reduction"}
    THEN Range(outcome.value) ELSE {}

\* C30: every GeneratedMeal that generate_personalized_meals or
\* optimize_for_waste_reduction returns has a confidence_score in [0, 1].
C30_ConfidenceInUnitInterval ==
    \A meal \in ReturnedMeals :
        0 <= meal.confidence_score /\ meal.confidence_score <= ScoreUnit

\* the part of C30 about generate_personalized_meals alone
GeneratedConfidenceInUnitInterval ==
    op = "generate_personalized_meals"
    => \A meal \in ReturnedMeals :
           Score(3) <= meal.confidence_score /\ meal.confidence_score <= ScoreUnit

====
